---------------------------- MODULE Spec2Model ----------------------------
(***************************************************************************)
(* Model of kraken's command-line grammar engine (Parser), of the command *)
(* pipeline (Command.execute) and of the entry point (cli).                *)
(*                                                                         *)
(* JavaScript strings are TLA+ strings, handled character by character    *)
(* with Len, SubSeq and \o.  A JavaScript value that may be undefined is a *)
(* sequence of length 0 (undefined) or 1.  A JavaScript object used as a   *)
(* map is a sequence of entries in insertion order, each key occurring at  *)
(* most once (identifiers are words of letters and '-', so no key is an    *)
(* array index and insertion order is the iteration order).                *)
(***************************************************************************)
EXTENDS Integers, Sequences, FiniteSets, TLC

(***************************************************************************)
(* Bounds of the model.                                                    *)
(***************************************************************************)
MaxRegs == 3        \* registration calls made by a command's constructor
MaxTokens == 4      \* tokens entered after the command name
MaxParams == 3      \* parameters of a pattern string
MaxChars == 4       \* characters of a value handed to the boolean cast

(***************************************************************************)
(* String primitives of the JavaScript runtime.                            *)
(***************************************************************************)
Undefined == <<>>

CharAt(s, i) == SubSeq(s, i, i)

RECURSIVE IndexOfChar(_, _, _)
\* String.prototype.indexOf for one character, 1-based, 0 when absent
IndexOfChar(s, c, from) ==
    IF from > Len(s) THEN 0
    ELSE IF CharAt(s, from) = c THEN from
    ELSE IndexOfChar(s, c, from + 1)

RECURSIVE Split(_, _)
\* String.prototype.split on a one-character separator
Split(s, c) ==
    LET i == IndexOfChar(s, c, 1)
    IN IF i = 0 THEN <<s>>
       ELSE <<SubSeq(s, 1, i - 1)>> \o Split(SubSeq(s, i + 1, Len(s)), c)

\* String.prototype.replace(c, ''): removes the first occurrence only
RemoveFirst(s, c) ==
    LET i == IndexOfChar(s, c, 1)
    IN IF i = 0 THEN s
       ELSE SubSeq(s, 1, i - 1) \o SubSeq(s, i + 1, Len(s))

\* `${x}` in a template literal
Template(x) == IF x = Undefined THEN "undefined" ELSE x[1]

\* Boolean(x) for a possibly undefined string
Truthy(x) == x # Undefined /\ x[1] # ""

RECURSIVE IndexOf(_, _, _)
\* Array.prototype.indexOf, 1-based, 0 when absent
IndexOf(arr, x, from) ==
    IF from > Len(arr) THEN 0
    ELSE IF arr[from] = x THEN from
    ELSE IndexOf(arr, x, from + 1)

\* Array.prototype.splice(index, count) with a 1-based index
Splice(arr, index, count) ==
    SubSeq(arr, 1, index - 1) \o SubSeq(arr, index + count, Len(arr))

(***************************************************************************)
(* Ordered maps (JavaScript objects).                                      *)
(***************************************************************************)
Keys(m) == {m[i].name : i \in 1..Len(m)}

HasKey(m, k) == \E i \in 1..Len(m) : m[i].name = k

Get(m, k) == m[CHOOSE i \in 1..Len(m) : m[i].name = k]

\* m[k] = item: an existing key keeps its position
Put(m, item) ==
    IF HasKey(m, item.name)
    THEN [i \in 1..Len(m) |-> IF m[i].name = item.name THEN item ELSE m[i]]
    ELSE Append(m, item)

\* delete m[k]
Delete(m, k) ==
    LET keep == {i \in 1..Len(m) : m[i].name # k}
        F[i \in 0..Len(m)] ==
            IF i = 0 THEN <<>>
            ELSE IF i \in keep THEN Append(F[i - 1], m[i]) ELSE F[i - 1]
    IN F[Len(m)]

(***************************************************************************)
(* Parser constructor: compiles the pattern string.                        *)
(***************************************************************************)
RECURSIVE CompileParameters(_, _)
\* the map callback over the pattern's parameters, with optionalParamFound
\* mutant: optionalParamFound is not tested
CompileParametersUnordered(parameters, optionalParamFound) ==
    [ok |-> TRUE,
     pattern |-> [i \in 1..Len(parameters) |->
                    LET parsedParam == RemoveFirst(RemoveFirst(parameters[i], "<"), ">")
                    IN IF IndexOfChar(parsedParam, "?", 1) > 0
                       THEN [name |-> RemoveFirst(parsedParam, "?"), required |-> FALSE]
                       ELSE [name |-> parsedParam, required |-> TRUE]]]

CompileParameters(parameters, optionalParamFound) ==
    IF parameters = <<>> THEN [ok |-> TRUE, pattern |-> <<>>]
    ELSE LET parsedParam == RemoveFirst(RemoveFirst(Head(parameters), "<"), ">")
             optional == IndexOfChar(parsedParam, "?", 1) > 0
         IN IF ~optional /\ optionalParamFound
            THEN [ok |-> FALSE, pattern |-> <<>>]
            ELSE LET rest == CompileParameters(Tail(parameters),
                                               optionalParamFound \/ optional)
                     spec == IF optional
                             THEN [name |-> RemoveFirst(parsedParam, "?"),
                                   required |-> FALSE]
                             ELSE [name |-> parsedParam, required |-> TRUE]
                 IN [ok |-> rest.ok,
                     pattern |-> IF rest.ok THEN <<spec>> \o rest.pattern
                                 ELSE <<>>]

\* mutant: the first parameter is taken for the command name
ParserConstructorFromSecond(p) ==
    LET split == Split(p, " ")
    IN IF Len(split) > 2 THEN CompileParameters(Tail(Tail(split)), FALSE)
       ELSE [ok |-> TRUE, pattern |-> <<>>]

ParserConstructor(p) ==
    LET split == Split(p, " ")
    IN IF Len(split) > 1 THEN CompileParameters(Tail(split), FALSE)
       ELSE [ok |-> TRUE, pattern |-> <<>>]

(***************************************************************************)
(* Registration.  Each operator gives ok = FALSE when the method throws,   *)
(* and then the registry it returns is the one it was given.               *)
(***************************************************************************)
\* mutant: the registries are not consulted
AssertsNothing(arguments, flags, longHand, shortHand) == TRUE

\* TRUE when _assertNotAlreadyRegistered returns without throwing
AssertNotAlreadyRegistered(arguments, flags, longHand, shortHand) ==
    \A id \in {x \in {<<longHand>>, shortHand} : Truthy(x)} :
        /\ ~HasKey(arguments, id[1])
        /\ ~HasKey(flags, id[1])

\* the message of the FatalError that _assertNotAlreadyRegistered throws: the
\* first identifier, long name before short name, that is a key of a registry,
\* the arguments registry being tested before the flags registry
AlreadyRegisteredError(arguments, flags, longHand, shortHand) ==
    LET ids == SelectSeq(<<<<longHand>>, shortHand>>, Truthy)
        taken == {i \in 1..Len(ids) :
                     HasKey(arguments, ids[i][1]) \/ HasKey(flags, ids[i][1])}
        first == CHOOSE i \in taken : \A j \in taken : i <= j
        id == ids[first][1]
    IN (IF HasKey(arguments, id) THEN "argument" ELSE "flag")
       \o " with identifier " \o id \o " already exists"

\* [longHand, shortHand] = name.split('|')
LongHand(name) == Split(name, "|")[1]

ShortHand(name) ==
    LET parts == Split(name, "|")
    IN IF Len(parts) > 1 THEN <<parts[2]>> ELSE Undefined

\* { shortHand, type: 'string', ...opts }
RegistryItem(name, opts) ==
    [name |-> LongHand(name),
     shortHand |-> ShortHand(name),
     type |-> IF opts.type = Undefined THEN "string" ELSE opts.type[1],
     validate |-> opts.validate]

ParserArgument(arguments, flags, name, opts) ==
    IF name = ""
    THEN [ok |-> FALSE, registry |-> arguments,
          error |-> "no name found in argument registration"]
    ELSE IF ~AssertNotAlreadyRegistered(arguments, flags,
                                        LongHand(name), ShortHand(name))
    THEN [ok |-> FALSE, registry |-> arguments,
          error |-> AlreadyRegisteredError(arguments, flags,
                                           LongHand(name), ShortHand(name))]
    ELSE [ok |-> TRUE, registry |-> Put(arguments, RegistryItem(name, opts)),
          error |-> ""]

\* mutant: the flag is stored before the identifiers are looked up
ParserFlagAssignsFirst(arguments, flags, name, opts) ==
    IF name = ""
    THEN [ok |-> FALSE, registry |-> flags,
          error |-> "no name found in flag registration"]
    ELSE IF ~AssertNotAlreadyRegistered(arguments, flags,
                                        LongHand(name), ShortHand(name))
    THEN [ok |-> FALSE, registry |-> Put(flags, RegistryItem(name, opts)),
          error |-> AlreadyRegisteredError(arguments, flags,
                                           LongHand(name), ShortHand(name))]
    ELSE [ok |-> TRUE, registry |-> Put(flags, RegistryItem(name, opts)),
          error |-> ""]

ParserFlag(arguments, flags, name, opts) ==
    IF name = ""
    THEN [ok |-> FALSE, registry |-> flags,
          error |-> "no name found in flag registration"]
    ELSE IF ~AssertNotAlreadyRegistered(arguments, flags,
                                        LongHand(name), ShortHand(name))
    THEN [ok |-> FALSE, registry |-> flags,
          error |-> AlreadyRegisteredError(arguments, flags,
                                           LongHand(name), ShortHand(name))]
    ELSE [ok |-> TRUE, registry |-> Put(flags, RegistryItem(name, opts)),
          error |-> ""]

\* mutant: the name is not looked up in the pattern
ParserParameterAnyName(pattern, parameters, name, opts) ==
    IF name = "" \/ HasKey(parameters, name)
    THEN [ok |-> FALSE, registry |-> parameters, error |-> "rejected"]
    ELSE [ok |-> TRUE, error |-> "",
          registry |-> Put(parameters, [name |-> name, type |-> "string",
                                        validate |-> opts.validate])]

ParserParameter(pattern, parameters, name, opts) ==
    LET paramFoundInPattern == \E i \in 1..Len(pattern) : pattern[i].name = name
    IN IF name = ""
       THEN [ok |-> FALSE, registry |-> parameters,
             error |-> "no name found in parameter registration"]
       ELSE IF ~paramFoundInPattern
       THEN [ok |-> FALSE, registry |-> parameters,
             error |-> name \o " was not specified in pattern"]
       ELSE IF HasKey(parameters, name)
       THEN [ok |-> FALSE, registry |-> parameters,
             error |-> name \o " is already a registered parameter"]
       ELSE [ok |-> TRUE, error |-> "",
             registry |-> Put(parameters,
                              [name |-> name,
                               type |-> IF opts.type = Undefined THEN "string"
                                        ELSE opts.type[1],
                               validate |-> opts.validate])]

(***************************************************************************)
(* castToType.  A cast value is a record: [str |-> s] for a string,        *)
(* [bool |-> b] for a boolean, and [sign, whole, frac] for a number        *)
(* (sign * whole.frac, frac being the decimal digits without trailing      *)
(* zeros), so that parseInt("5") and parseFloat("5.0") are the same        *)
(* number.                                                                 *)
(***************************************************************************)
Digits == "0123456789"
UpperCase == "ABCDEFGHIJKLMNOPQRSTUVWXYZ"
LowerCase == "abcdefghijklmnopqrstuvwxyz"

IsDigit(c) == IndexOfChar(Digits, c, 1) > 0
DigitValue(c) == IndexOfChar(Digits, c, 1) - 1
IsWhiteSpace(c) == c \in {" ", "\t", "\n"}

RECURSIVE ToLowerCase(_)
ToLowerCase(s) ==
    IF s = "" THEN ""
    ELSE LET c == CharAt(s, 1)
             u == IndexOfChar(UpperCase, c, 1)
         IN (IF u > 0 THEN CharAt(LowerCase, u) ELSE c)
            \o ToLowerCase(SubSeq(s, 2, Len(s)))

RECURSIVE TrimStart(_)
TrimStart(s) ==
    IF s # "" /\ IsWhiteSpace(CharAt(s, 1)) THEN TrimStart(SubSeq(s, 2, Len(s)))
    ELSE s

RECURSIVE TrimEnd(_)
TrimEnd(s) ==
    IF s # "" /\ IsWhiteSpace(CharAt(s, Len(s))) THEN TrimEnd(SubSeq(s, 1, Len(s) - 1))
    ELSE s

\* mutant: only the white space in front is removed
TrimKeepsEnd(s) == TrimStart(s)

Trim(s) == TrimEnd(TrimStart(s))

RECURSIVE DigitRun(_, _)
\* length of the run of decimal digits of s that starts at index from
DigitRun(s, from) ==
    IF from <= Len(s) /\ IsDigit(CharAt(s, from)) THEN 1 + DigitRun(s, from + 1)
    ELSE 0

RECURSIVE DecimalValue(_)
DecimalValue(ds) ==
    IF ds = "" THEN 0
    ELSE 10 * DecimalValue(SubSeq(ds, 1, Len(ds) - 1)) + DigitValue(CharAt(ds, Len(ds)))

RECURSIVE StripZeros(_)
StripZeros(ds) ==
    IF ds # "" /\ CharAt(ds, Len(ds)) = "0" THEN StripZeros(SubSeq(ds, 1, Len(ds) - 1))
    ELSE ds

NaN == [nan |-> TRUE]

Number(negative, whole, frac) ==
    [sign |-> IF negative /\ (whole # 0 \/ frac # "") THEN -1 ELSE 1,
     whole |-> whole, frac |-> frac]

\* leading white space and an optional sign, common to parseInt and parseFloat
SignLength(t) == IF t # "" /\ CharAt(t, 1) \in {"+", "-"} THEN 1 ELSE 0

\* parseInt(value) on decimal text
ParseInt(value) ==
    LET t == TrimStart(value)
        s == SignLength(t)
        n == DigitRun(t, s + 1)
    IN IF n = 0 THEN NaN
       ELSE Number(s = 1 /\ CharAt(t, 1) = "-",
                   DecimalValue(SubSeq(t, s + 1, s + n)), "")

\* parseFloat(value) on decimal text without exponent
ParseFloat(value) ==
    LET t == TrimStart(value)
        s == SignLength(t)
        n == DigitRun(t, s + 1)
        dot == s + n + 1 <= Len(t) /\ CharAt(t, s + n + 1) = "."
        f == IF dot THEN DigitRun(t, s + n + 2) ELSE 0
    IN IF n = 0 /\ f = 0 THEN NaN
       ELSE Number(s = 1 /\ CharAt(t, 1) = "-",
                   DecimalValue(SubSeq(t, s + 1, s + n)),
                   StripZeros(SubSeq(t, s + n + 2, s + n + 1 + f)))

Types == {"string", "int", "float", "boolean"}

\* ok = FALSE when castToType throws
CastToType(value, type) ==
    IF type = "string" THEN [ok |-> TRUE, value |-> [str |-> value]]
    ELSE IF type = "int"
    THEN [ok |-> ParseInt(value) # NaN, value |-> ParseInt(value)]
    ELSE IF type = "float"
    THEN [ok |-> ParseFloat(value) # NaN, value |-> ParseFloat(value)]
    ELSE IF type = "boolean"
    THEN [ok |-> TRUE,
          value |-> [bool |-> \/ Trim(ToLowerCase(value)) = "true"
                              \/ Trim(ToLowerCase(value)) = "t"
                              \/ Trim(value) = "1"]]
    ELSE [ok |-> FALSE, value |-> NaN]

\* the message of the FatalError that castToType throws
CastError(value, type) ==
    IF type \in {"int", "float"} THEN value \o " is not of type " \o type
    ELSE "invalid type received: " \o type

RECURSIVE NumberToString(_)
\* `${n}` for a natural number
NumberToString(n) ==
    IF n < 10 THEN CharAt(Digits, n + 1)
    ELSE NumberToString(n \div 10) \o CharAt(Digits, (n % 10) + 1)

(***************************************************************************)
(* Validators that a registration may attach (opts.validate).              *)
(***************************************************************************)
\* mutant: the validator's result is not used
ValidateAccepts(validator, value) == TRUE

Validate(validator, value) ==
    IF validator = "isPositive"
    THEN value # NaN /\ "sign" \in DOMAIN value /\ value.sign = 1
         /\ (value.whole # 0 \/ value.frac # "")
    ELSE TRUE

(***************************************************************************)
(* The three extraction phases.  Each works on the stream args, which the  *)
(* code mutates in place, and gives the stream as the phase leaves it:     *)
(* when the phase throws (ok = FALSE) that is the stream at the throw.     *)
(***************************************************************************)
\* [`--${arg}`, `-${shortHand}`] for one registry entry
Identifiers(item) == <<"--" \o item.name, "-" \o Template(item.shortHand)>>

\* mutant: an identifier that ends the stream is left in it
ParseArgumentIdentifierSkipsLast(st, item, i) ==
    LET index == IndexOf(st.args, i, 1)
    IN IF index = 0 \/ index + 1 > Len(st.args) THEN st
       ELSE LET cast == CastToType(st.args[index + 1], item.type)
            IN IF ~cast.ok
               THEN [st EXCEPT !.ok = FALSE,
                               !.error = CastError(st.args[index + 1], item.type)]
               ELSE IF item.validate # Undefined
                       /\ ~Validate(item.validate[1], cast.value)
               THEN [st EXCEPT !.ok = FALSE,
                               !.error = item.name \o " failed validation"]
               ELSE [st EXCEPT
                       !.parsed = Put(st.parsed, [name |-> item.name,
                                                  value |-> cast.value]),
                       !.args = Splice(st.args, index, 2)]

\* mutant: only the identifier token is removed
ParseArgumentIdentifierKeepsValue(st, item, i) ==
    LET index == IndexOf(st.args, i, 1)
    IN IF index = 0 THEN st
       ELSE IF index + 1 > Len(st.args)
       THEN [st EXCEPT !.ok = FALSE, !.error = "no value passed to " \o i]
       ELSE LET cast == CastToType(st.args[index + 1], item.type)
            IN IF ~cast.ok
               THEN [st EXCEPT !.ok = FALSE,
                               !.error = CastError(st.args[index + 1], item.type)]
               ELSE [st EXCEPT
                       !.parsed = Put(st.parsed, [name |-> item.name,
                                                  value |-> cast.value]),
                       !.args = Splice(st.args, index, 1)]

\* the forEach callback of parseArguments for the identifier i of argument item
ParseArgumentIdentifier(st, item, i) ==
    LET index == IndexOf(st.args, i, 1)
    IN IF index = 0 THEN st
       ELSE IF index + 1 > Len(st.args)
       THEN [st EXCEPT !.ok = FALSE, !.error = "no value passed to " \o i]
       ELSE LET cast == CastToType(st.args[index + 1], item.type)
            IN IF ~cast.ok
               THEN [st EXCEPT !.ok = FALSE,
                               !.error = CastError(st.args[index + 1], item.type)]
               ELSE IF item.validate # Undefined
                       /\ ~Validate(item.validate[1], cast.value)
               THEN [st EXCEPT !.ok = FALSE,
                               !.error = item.name \o " failed validation"]
               ELSE [st EXCEPT
                       !.parsed = Put(st.parsed, [name |-> item.name,
                                                  value |-> cast.value]),
                       !.args = Splice(st.args, index, 2)]

RECURSIVE ParseArgumentsFromShortFirst(_, _, _)
\* mutant: the short identifier is searched before the long one
ParseArgumentsFromShortFirst(st, registry, k) ==
    IF k > Len(registry) \/ ~st.ok THEN st
    ELSE LET ids == Identifiers(registry[k])
             short == ParseArgumentIdentifier(st, registry[k], ids[2])
             long == IF short.ok
                     THEN ParseArgumentIdentifier(short, registry[k], ids[1])
                     ELSE short
         IN ParseArgumentsFromShortFirst(long, registry, k + 1)

RECURSIVE ParseArgumentsFrom(_, _, _)
\* the for..in loop of parseArguments from the k-th registered argument on
ParseArgumentsFrom(st, registry, k) ==
    IF k > Len(registry) \/ ~st.ok THEN st
    ELSE LET ids == Identifiers(registry[k])
             long == ParseArgumentIdentifier(st, registry[k], ids[1])
             short == IF long.ok
                      THEN ParseArgumentIdentifier(long, registry[k], ids[2])
                      ELSE long
         IN ParseArgumentsFrom(short, registry, k + 1)

ParseArguments(args, registry) ==
    ParseArgumentsFrom([ok |-> TRUE, error |-> "", parsed |-> <<>>, args |-> args],
                       registry, 1)

\* mutant: a flag is recorded only when its token is found
ParseFlagIdentifierFoundOnly(st, item, name) ==
    LET index == IndexOf(st.args, name, 1)
    IN IF index # 0
       THEN [st EXCEPT
               !.parsed = Put(Delete(st.parsed, name),
                              [name |-> item.name, value |-> TRUE]),
               !.args = Splice(st.args, index, 1)]
       ELSE st

\* the forEach callback of parseFlags for the identifier name of flag item
ParseFlagIdentifier(st, item, name) ==
    LET index == IndexOf(st.args, name, 1)
    IN IF index # 0
       THEN [st EXCEPT
               !.parsed = Put(Delete(st.parsed, name),
                              [name |-> item.name, value |-> TRUE]),
               !.args = Splice(st.args, index, 1)]
       ELSE [st EXCEPT
               !.parsed = Put(Delete(st.parsed, name),
                              [name |-> item.name, value |-> FALSE])]

RECURSIVE ParseFlagsFrom(_, _, _)
ParseFlagsFrom(st, registry, k) ==
    IF k > Len(registry) THEN st
    ELSE LET ids == Identifiers(registry[k])
         IN ParseFlagsFrom(
                ParseFlagIdentifier(ParseFlagIdentifier(st, registry[k], ids[1]),
                                    registry[k], ids[2]),
                registry, k + 1)

ParseFlags(args, registry) ==
    ParseFlagsFrom([ok |-> TRUE, error |-> "", parsed |-> <<>>, args |-> args],
                   registry, 1)

RECURSIVE ParseParametersFromAnyName(_, _, _, _)
\* mutant: a token at the position of an unregistered name is recorded as a
\* string
ParseParametersFromAnyName(st, pattern, registry, i) ==
    IF i > Len(pattern) \/ ~st.ok THEN st
    ELSE IF i <= Len(st.args)
    THEN ParseParametersFromAnyName(
             [st EXCEPT !.parsed =
                 Put(st.parsed,
                     [name |-> pattern[i].name,
                      value |-> CastToType(st.args[i],
                                    IF HasKey(registry, pattern[i].name)
                                    THEN Get(registry, pattern[i].name).type
                                    ELSE "string").value])],
             pattern, registry, i + 1)
    ELSE IF pattern[i].required
    THEN [st EXCEPT !.ok = FALSE, !.error = pattern[i].name \o " is required"]
    ELSE ParseParametersFromAnyName(st, pattern, registry, i + 1)

RECURSIVE ParseParametersFromLenient(_, _, _, _)
\* mutant: a required parameter without token is passed over
ParseParametersFromLenient(st, pattern, registry, i) ==
    IF i > Len(pattern) \/ ~st.ok THEN st
    ELSE IF i <= Len(st.args)
    THEN IF ~HasKey(registry, pattern[i].name)
         THEN [st EXCEPT !.ok = FALSE,
                         !.error = pattern[i].name \o " is not a registered parameters"]
         ELSE ParseParametersFromLenient(
                  [st EXCEPT !.parsed =
                      Put(st.parsed,
                          [name |-> pattern[i].name,
                           value |-> CastToType(st.args[i],
                                         Get(registry, pattern[i].name).type).value])],
                  pattern, registry, i + 1)
    ELSE st

RECURSIVE ParseParametersFrom(_, _, _, _)
\* the for loop of parseParameters from pattern position i on
ParseParametersFrom(st, pattern, registry, i) ==
    IF i > Len(pattern) \/ ~st.ok THEN st
    ELSE IF i <= Len(st.args)
    THEN IF ~HasKey(registry, pattern[i].name)
         THEN [st EXCEPT !.ok = FALSE,
                         !.error = pattern[i].name \o " is not a registered parameters"]
         ELSE LET cast == CastToType(st.args[i], Get(registry, pattern[i].name).type)
              IN IF ~cast.ok
                 THEN [st EXCEPT !.ok = FALSE,
                                 !.error = CastError(st.args[i],
                                               Get(registry, pattern[i].name).type)]
                 ELSE ParseParametersFrom(
                          [st EXCEPT !.parsed =
                              Put(st.parsed, [name |-> pattern[i].name,
                                              value |-> cast.value])],
                          pattern, registry, i + 1)
    ELSE IF pattern[i].required
    THEN [st EXCEPT !.ok = FALSE, !.error = pattern[i].name \o " is required"]
    ELSE ParseParametersFrom(st, pattern, registry, i + 1)

\* mutant: the tokens are given to the parameters from the last one back
ParseParametersBackwards(args, pattern, registry) ==
    IF Len(args) > Len(pattern)
    THEN [ok |-> FALSE, error |-> "invalid command structure",
          parsed |-> <<>>, args |-> args]
    ELSE [ParseParametersFrom(
              [ok |-> TRUE, error |-> "", parsed |-> <<>>,
               args |-> [i \in 1..Len(args) |-> args[Len(args) + 1 - i]]],
              pattern, registry, 1) EXCEPT !.args = args]

\* mutant: the number of tokens is not compared with the pattern's length
ParseParametersUnchecked(args, pattern, registry) ==
    ParseParametersFrom([ok |-> TRUE, error |-> "", parsed |-> <<>>,
                         args |-> args], pattern, registry, 1)

ParseParameters(args, pattern, registry) ==
    IF Len(args) > Len(pattern)
    THEN [ok |-> FALSE,
          error |-> "invalid command structure - expected "
                    \o NumberToString(Len(pattern)) \o " parameters, but found "
                    \o NumberToString(Len(args)),
          parsed |-> <<>>, args |-> args]
    ELSE ParseParametersFrom([ok |-> TRUE, error |-> "", parsed |-> <<>>,
                              args |-> args], pattern, registry, 1)

(***************************************************************************)
(* Inputs.  A command is either the release command, whose constructor     *)
(* makes the registration calls of release.ts, or a command whose          *)
(* constructor makes up to MaxRegs registration calls drawn from           *)
(* RegCalls.                                                               *)
(***************************************************************************)
NoOpts == [type |-> Undefined, validate |-> Undefined]

Call(kind, name, opts) == [kind |-> kind, name |-> name, opts |-> opts]

RegCalls ==
    { Call("argument", "foo|f", NoOpts),
      Call("argument", "num|n", [type |-> <<"int">>, validate |-> <<"isPositive">>]),
      Call("argument", "", NoOpts),
      Call("flag", "bar|f", NoOpts),
      Call("flag", "foo", NoOpts),
      Call("parameter", "", NoOpts),
      Call("parameter", "a", NoOpts),
      Call("parameter", "b", [type |-> <<"boolean">>, validate |-> Undefined]),
      Call("parameter", "c", NoOpts) }

Patterns == {"<cmd>", "<cmd> <a> <b?>", "<cmd> <a?> <b>"}

Tokens == {"--foo", "-f", "-n", "1", "0"}

ReleasePattern == "<release> <platform> <target-branch>"

ReleaseProgram ==
    << Call("parameter", "platform", NoOpts),
       Call("parameter", "target-branch", NoOpts),
       Call("argument", "prepared|p", NoOpts),
       Call("argument", "title|t", NoOpts) >>

ReleaseTokens == {"github", "gitlab", "main", "-t"}

\* a command whose constructor registers an argument that has no short name
\* and an argument that has one
PlainPattern == "<cmd> <a?>"

PlainProgram ==
    << Call("argument", "title", NoOpts),
       Call("argument", "num|n", [type |-> <<"int">>, validate |-> <<"isPositive">>]) >>

PlainTokens == {"--title", "-undefined", "-n", "1", "0"}

\* commands whose constructors make the registration calls of program, in
\* that order, with the tokens the user may enter: a pattern that names one
\* parameter twice, a pattern whose parameters are all optional,
\* registrations with a type that castToType does not know, a command
\* without registrations, whose hooks may be any (HookImpls), and a command
\* with one boolean parameter, which is given one of CastValues, and a
\* command with an int argument and a float parameter, and IssuesCommand and
\* PrepareCommand with the registrations of their constructors
ParsePrograms ==
    [repeated |->
        [pattern |-> "<cmd> <a> <a?>",
         program |-> << Call("parameter", "a", NoOpts) >>,
         tokens |-> {"1", "0"}],
     optional |->
        [pattern |-> "<cmd> <a?> <b?>",
         program |-> << Call("argument", "foo|f", NoOpts),
                        Call("flag", "bar|b", NoOpts),
                        Call("flag", "baz", NoOpts),
                        Call("parameter", "a", NoOpts),
                        Call("parameter", "b", [type |-> <<"boolean">>,
                                                validate |-> Undefined]) >>,
         tokens |-> {"--foo", "-b", "--baz", "1"}],
     typed |->
        [pattern |-> "<cmd> <a?>",
         program |-> << Call("argument", "when|w", [type |-> <<"date">>,
                                                    validate |-> Undefined]),
                        Call("parameter", "a", [type |-> <<"date">>,
                                                validate |-> Undefined]) >>,
         tokens |-> {"-w", "1"}],
     hooks |->
        [pattern |-> "<cmd>", program |-> <<>>, tokens |-> {}],
     boolean |->
        [pattern |-> "<cmd> <b?>",
         program |-> << Call("parameter", "b", [type |-> <<"boolean">>,
                                                validate |-> Undefined]) >>,
         tokens |-> {}],
     numeric |->
        [pattern |-> "<cmd> <ratio?>",
         program |-> << Call("argument", "count|c", [type |-> <<"int">>,
                                                     validate |-> Undefined]),
                        Call("parameter", "ratio", [type |-> <<"float">>,
                                                    validate |-> Undefined]) >>,
         tokens |-> {"-c", "5", "abc", "5x", "3.5"}],
     issues |->
        [pattern |-> "<issues> <platform>",
         program |-> << Call("parameter", "platform", NoOpts),
                        Call("argument", "project|p", NoOpts),
                        Call("argument", "status|s", NoOpts),
                        Call("argument", "write-to|t", NoOpts),
                        Call("flag", "write|w", NoOpts) >>,
         tokens |-> {"jira", "-w", "-p", "-t", "out.json"}],
     prepare |->
        [pattern |-> "<prepare> <?platform> <?target-branch>",
         program |-> << Call("flag", "attempt-cherry-pick|a", NoOpts),
                        Call("flag", "ignore-case|i", NoOpts),
                        Call("flag", "write|w", NoOpts),
                        Call("parameter", "platform", NoOpts),
                        Call("parameter", "target-branch", NoOpts),
                        Call("argument", "filename|f", NoOpts),
                        Call("argument", "new-branch|n", NoOpts),
                        Call("argument", "write-to|t", NoOpts) >>,
         tokens |-> {"github", "main", "-a", "-w", "--write-to", "-t",
                     "out.json"}]]

\* mutant: a name that is not a command is known
commandsWithBogus ==
    {"files", "help", "issues", "prepare", "projects", "release", "statuses", "bogus"}

\* the known command names of commands/index.ts
commands == {"files", "help", "issues", "prepare", "projects", "release", "statuses"}

RECURSIVE StringsUpTo(_, _)
\* the strings over the characters A of length at most n
StringsUpTo(A, n) ==
    IF n = 0 THEN {""}
    ELSE LET shorter == StringsUpTo(A, n - 1)
         IN shorter \cup {str \o c : str \in shorter, c \in A}

\* the values the user may enter for the boolean parameter
CastValues == StringsUpTo({"t", "r", "u", "e", "T", "R", "1", " "}, MaxChars)

RECURSIVE SeqsUpTo(_, _)
\* the sequences over S of length at most n
SeqsUpTo(S, n) ==
    IF n = 0 THEN {<<>>}
    ELSE LET shorter == SeqsUpTo(S, n - 1)
         IN shorter \cup {Append(q, x) : q \in shorter, x \in S}

(***************************************************************************)
(* State.                                                                  *)
(***************************************************************************)
VARIABLES
    cmd,            \* which command class this is: "generic", "release",
                    \* "plain" or a key of ParsePrograms
    patternStr,     \* the pattern string handed to the Command constructor
    pc,             \* position of the process
    regs,           \* registration calls made so far
    pattern,        \* Parser.pattern
    arguments,      \* Parser.arguments
    flags,          \* Parser.flags
    parameters,     \* Parser.parameters
    input,          \* ctx.args as Parser.init built it (kept for reference)
    args,           \* ctx.args, the token stream the phases consume
    ctxArguments,   \* ctx.arguments: the three parsed maps
    parsedLocal,    \* results of the phases of the parse in progress
    calls,          \* how many times each hook was invoked
    promise,        \* state of the promise each hook returned
    err,            \* the error that was thrown or that rejected the chain
    reported,       \* Logger.error was called with the error
    exitCode,       \* status passed to process.exit, Undefined before it
    message,        \* message of the parser's error that was logged
    work,           \* the pull request creation started by ReleaseCommand.main
    threaded,       \* what each hook was passed and resolved with, the changes
                    \* made to each object, whether main's warning was logged
    world           \* what the hooks act on outside the process: the files of
                    \* ~/.kraken/temp and the git repository

vars == <<cmd, patternStr, pc, regs, pattern, arguments, flags, parameters, input,
          args, ctxArguments, parsedLocal, calls, promise, err, reported,
          exitCode, message, work, threaded, world>>

commandVars == <<cmd, patternStr, regs>>
parserVars == <<pattern, arguments, flags, parameters>>
ctxVars == <<input, args, ctxArguments, parsedLocal>>
hookVars == <<calls, promise, err, work, threaded, world>>

Hooks == {"before", "main", "after"}

\* the objects a hook may be passed: the context that cli built, or the
\* object that a hook resolved with in its place
Refs == {"ctx"} \cup Hooks

\* nothing has been passed to a hook yet
NotThreaded ==
    [impl |-> [h \in Hooks |-> "none"],
     passed |-> [h \in Hooks |-> Undefined],
     resolved |-> [h \in Hooks |-> Undefined],
     mutations |-> [r \in Refs |-> <<>>],
     warned |-> FALSE]

\* the files of ~/.kraken/temp before the command runs, each with its name
\* and whether it was last modified longer ago than the retention period
TempFiles ==
    {[name |-> "issues-Jan-01.json", old |-> TRUE],
     [name |-> "issues-Nov-01.json", old |-> FALSE],
     [name |-> "prepared-Jan-01.json", old |-> TRUE],
     [name |-> "release-Jan-01.json", old |-> TRUE]}

\* the temp directory and the repository before the command runs: branch is
\* the branch that is checked out, picking a cherry-pick in progress, failed
\* the step of attemptCherryPick that threw, logged its Logger.error
InitWorld ==
    [temp |-> TempFiles, branch |-> "feature", branches |-> {"feature", "main"},
     picking |-> FALSE, failed |-> "none", logged |-> FALSE]

EmptyParsed == [arguments |-> <<>>, flags |-> <<>>, parameters |-> <<>>]

\* the process before the command is constructed
Fresh ==
    /\ pc = "new"
    /\ regs = 0
    /\ pattern = <<>>
    /\ arguments = <<>>
    /\ flags = <<>>
    /\ parameters = <<>>
    /\ input = <<>>
    /\ args = <<>>
    /\ ctxArguments = EmptyParsed
    /\ parsedLocal = EmptyParsed
    /\ calls = [before |-> 0, main |-> 0, after |-> 0]
    /\ promise = [before |-> "none", main |-> "none", after |-> "none"]
    /\ err = "none"
    /\ reported = FALSE
    /\ exitCode = Undefined
    /\ message = Undefined
    /\ work = "none"
    /\ threaded = NotThreaded
    /\ world = InitWorld

Init ==
    /\ cmd \in {"generic", "release"}
    /\ patternStr \in (IF cmd = "release" THEN {ReleasePattern} ELSE Patterns)
    /\ Fresh

\* process.exit(code), after Logger.error when report is TRUE
Exit(code, report) ==
    /\ pc' = "exited"
    /\ exitCode' = <<code>>
    /\ reported' = report

(***************************************************************************)
(* Construction of the command: Command constructor, then registrations.   *)
(***************************************************************************)
\* new Parser(pattern); a throw here is not caught by anything
Construct ==
    /\ pc = "new"
    /\ LET compiled == ParserConstructor(patternStr)
       IN IF compiled.ok
          THEN /\ pattern' = compiled.pattern
               /\ pc' = "registering"
          ELSE /\ pc' = "crashed"
               /\ UNCHANGED pattern
    /\ UNCHANGED <<commandVars, arguments, flags, parameters, ctxVars, hookVars,
                   exitCode, reported, message>>

\* the registration calls the constructor may make next
NextCalls ==
    IF cmd = "release"
    THEN IF regs < Len(ReleaseProgram) THEN {ReleaseProgram[regs + 1]} ELSE {}
    ELSE IF cmd = "plain"
    THEN IF regs < Len(PlainProgram) THEN {PlainProgram[regs + 1]} ELSE {}
    ELSE IF cmd \in DOMAIN ParsePrograms
    THEN IF regs < Len(ParsePrograms[cmd].program)
         THEN {ParsePrograms[cmd].program[regs + 1]} ELSE {}
    ELSE IF regs < MaxRegs THEN RegCalls ELSE {}

\* the catch block of Command.argument, Command.flag and Command.parameter:
\* every error of the parser is a FatalError
RegistrationResult(r) ==
    IF r.ok THEN UNCHANGED <<pc, exitCode, reported, message>>
    ELSE Exit(1, TRUE) /\ message' = <<r.error>>

\* Command.argument(name, opts)
RegisterArgument(name, opts) ==
    /\ pc = "registering"
    /\ Call("argument", name, opts) \in NextCalls
    /\ regs' = regs + 1
    /\ LET r == ParserArgument(arguments, flags, name, opts)
       IN /\ arguments' = r.registry
          /\ RegistrationResult(r)
    /\ UNCHANGED <<cmd, patternStr, pattern, flags, parameters, ctxVars, hookVars>>

\* Command.flag(name, opts)
RegisterFlag(name, opts) ==
    /\ pc = "registering"
    /\ Call("flag", name, opts) \in NextCalls
    /\ regs' = regs + 1
    /\ LET r == ParserFlag(arguments, flags, name, opts)
       IN /\ flags' = r.registry
          /\ RegistrationResult(r)
    /\ UNCHANGED <<cmd, patternStr, pattern, arguments, parameters, ctxVars,
                   hookVars>>

\* Command.parameter(name, opts)
RegisterParameter(name, opts) ==
    /\ pc = "registering"
    /\ Call("parameter", name, opts) \in NextCalls
    /\ regs' = regs + 1
    /\ LET r == ParserParameter(pattern, parameters, name, opts)
       IN /\ parameters' = r.registry
          /\ RegistrationResult(r)
    /\ UNCHANGED <<cmd, patternStr, pattern, arguments, flags, ctxVars, hookVars>>

(***************************************************************************)
(* cli: one invocation of the executable.                                  *)
(***************************************************************************)
\* the name under which commandRegistry holds this command
CommandName == IF cmd \in {"release", "issues", "prepare"} THEN cmd ELSE "files"

\* what the user may type as the command name (absent: Undefined)
CommandInputs == {Undefined, <<"bogus">>, <<"--version">>, <<CommandName>>}

GenericStreams == SeqsUpTo(Tokens, MaxTokens)
ReleaseStreams == SeqsUpTo(ReleaseTokens, MaxTokens)
PlainStreams == SeqsUpTo(PlainTokens, MaxTokens)

\* the token streams the user may enter after the command name
TokenStreams ==
    IF cmd = "release" THEN ReleaseStreams
    ELSE IF cmd = "plain" THEN PlainStreams
    ELSE IF cmd = "boolean" THEN {<<value>> : value \in CastValues}
    ELSE IF cmd \in DOMAIN ParsePrograms
    THEN SeqsUpTo(ParsePrograms[cmd].tokens, MaxTokens)
    ELSE GenericStreams

\* the constructor has returned
Constructed ==
    /\ pc = "registering"
    /\ cmd = "release" => regs = Len(ReleaseProgram)
    /\ cmd = "plain" => regs = Len(PlainProgram)
    /\ cmd \in DOMAIN ParsePrograms => regs = Len(ParsePrograms[cmd].program)

\* mutant: the flags property is written before the arguments property
PhaseOrderFlagsFirst == <<"parseFlags", "parseArguments", "parseParameters">>

\* the order in which the object literal of Parser.parse evaluates its
\* properties: arguments, flags, parameters
PhaseOrder == <<"parseArguments", "parseFlags", "parseParameters">>

\* where the parse goes after a phase that did not throw
PhaseAfter(phase) ==
    LET k == CHOOSE i \in 1..Len(PhaseOrder) : PhaseOrder[i] = phase
    IN IF k < Len(PhaseOrder) THEN PhaseOrder[k + 1] ELSE "parsed"

\* cli(args) up to the call of getConfig; versionRead: package.json was read.
\* ctx is a local of cli: the stream is kept only when cli goes on with it.
Cli(command, tokens, versionRead) ==
    /\ Constructed
    /\ IF command = Undefined \/ command[1] = ""
       THEN Exit(1, TRUE) /\ UNCHANGED <<input, args, message>>
       ELSE IF command[1] \in {"--version", "-v"}
       THEN /\ IF versionRead THEN Exit(0, FALSE) ELSE Exit(1, TRUE)
            /\ UNCHANGED <<input, args, message>>
       ELSE IF command[1] \notin commands
       THEN Exit(1, TRUE) /\ UNCHANGED <<input, args, message>>
       ELSE /\ pc' = "getConfig"
            /\ input' = tokens
            /\ args' = tokens
            /\ UNCHANGED <<exitCode, reported, message>>
    /\ UNCHANGED <<commandVars, parserVars, ctxArguments, parsedLocal, hookVars>>

\* getConfig() resolves and the first then callback calls commandModule.exec,
\* that is Command.execute
GetConfigResolve ==
    /\ pc = "getConfig"
    /\ pc' = PhaseOrder[1]
    /\ UNCHANGED <<commandVars, parserVars, ctxVars, hookVars, exitCode, reported, message>>

\* getConfig() rejects with a file system error
GetConfigReject ==
    /\ pc = "getConfig"
    /\ pc' = "rejected"
    /\ err' = "nonfatal"
    /\ UNCHANGED <<commandVars, parserVars, ctxVars, calls, promise, work,
                   threaded, world, exitCode, reported, message>>

\* mutant: the instanceof test is missing its exit
ExitsOnNothing(error) == FALSE

\* mutant: process.exit(1) is not guarded by the instanceof test
ExitsOnAny(error) == TRUE

\* if (err instanceof FatalError) process.exit(1)
ExitsOn(error) == error = "fatal"

\* the .catch callback of cli
CliCatch ==
    /\ pc = "rejected"
    /\ reported' = TRUE
    /\ IF ExitsOn(err)
       THEN pc' = "exited" /\ exitCode' = <<1>>
       ELSE pc' = "halted" /\ UNCHANGED exitCode
    /\ UNCHANGED <<commandVars, parserVars, ctxVars, hookVars, message>>

(***************************************************************************)
(* Command.execute: Parser.parse in its three phases, then the hooks.      *)
(***************************************************************************)
\* mutant: the catch block of execute only logs
ExecuteCatchLogsOnly ==
    /\ err' = "parse"
    /\ reported' = TRUE
    /\ pc' = "parsed"
    /\ UNCHANGED exitCode

\* the catch block of execute: Logger.error(err.message); process.exit(1)
ExecuteCatch ==
    /\ err' = "parse"
    /\ Exit(1, TRUE)

\* what follows a phase: the next one, or the catch block when it threw
PhaseResult(phase, r) ==
    IF r.ok
    THEN pc' = PhaseAfter(phase) /\ UNCHANGED <<err, exitCode, reported, message>>
    ELSE ExecuteCatch /\ message' = <<r.error>>

\* mutant: the arguments phase writes its result to ctx.arguments as soon
\* as it returns
ParseArgumentsStepWritesContext ==
    /\ pc = "parseArguments"
    /\ LET r == ParseArguments(args, arguments)
       IN /\ args' = r.args
          /\ parsedLocal' = IF r.ok THEN [parsedLocal EXCEPT !.arguments = r.parsed]
                            ELSE parsedLocal
          /\ ctxArguments' = IF r.ok THEN [ctxArguments EXCEPT !.arguments = r.parsed]
                             ELSE ctxArguments
          /\ PhaseResult("parseArguments", r)
    /\ UNCHANGED <<commandVars, parserVars, input, calls, promise, work, threaded,
                   world>>

\* arguments: this.parseArguments(ctx.args)
ParseArgumentsStep ==
    /\ pc = "parseArguments"
    /\ LET r == ParseArguments(args, arguments)
       IN /\ args' = r.args
          /\ parsedLocal' = IF r.ok THEN [parsedLocal EXCEPT !.arguments = r.parsed]
                            ELSE parsedLocal
          /\ PhaseResult("parseArguments", r)
    /\ UNCHANGED <<commandVars, parserVars, input, ctxArguments, calls, promise,
                   work, threaded, world>>

\* mutant: parseFlags works on this.flags itself and deletes from it the
\* flags whose token it found
ParseFlagsStepOnRegistry ==
    /\ pc = "parseFlags"
    /\ LET r == ParseFlags(args, flags)
       IN /\ args' = r.args
          /\ parsedLocal' = [parsedLocal EXCEPT !.flags = r.parsed]
          /\ flags' = SelectSeq(flags, LAMBDA item : ~Get(r.parsed, item.name).value)
          /\ PhaseResult("parseFlags", r)
    /\ UNCHANGED <<commandVars, pattern, arguments, parameters, input, ctxArguments,
                   calls, promise, work, threaded, world>>

\* flags: this.parseFlags(ctx.args)
ParseFlagsStep ==
    /\ pc = "parseFlags"
    /\ LET r == ParseFlags(args, flags)
       IN /\ args' = r.args
          /\ parsedLocal' = [parsedLocal EXCEPT !.flags = r.parsed]
          /\ PhaseResult("parseFlags", r)
    /\ UNCHANGED <<commandVars, parserVars, input, ctxArguments, calls, promise,
                   work, threaded, world>>

\* parameters: this.parseParameters(ctx.args)
ParseParametersStep ==
    /\ pc = "parseParameters"
    /\ LET r == ParseParameters(args, pattern, parameters)
       IN /\ args' = r.args
          /\ parsedLocal' = IF r.ok THEN [parsedLocal EXCEPT !.parameters = r.parsed]
                            ELSE parsedLocal
          /\ PhaseResult("parseParameters", r)
    /\ UNCHANGED <<commandVars, parserVars, input, ctxArguments, calls, promise,
                   work, threaded, world>>

\* the assignment ctx.arguments = {...}, the return of parse, and the call
\* this.before(parsed)
ExecuteBefore ==
    /\ pc = "parsed"
    /\ ctxArguments' = parsedLocal
    /\ calls' = [calls EXCEPT !.before = @ + 1]
    /\ promise' = [promise EXCEPT !.before = "pending"]
    /\ threaded' = [threaded EXCEPT !.passed.before = <<"ctx">>]
    /\ pc' = "before"
    /\ UNCHANGED <<commandVars, parserVars, input, args, parsedLocal, err, work,
                   world, exitCode, reported, message>>

\* the value of a parsed parameter, Undefined when the key is absent
Parameter(name) ==
    IF HasKey(ctxArguments.parameters, name)
    THEN <<Get(ctxArguments.parameters, name).value>>
    ELSE Undefined

Outcomes == {"resolve", "fatal", "nonfatal"}

\* how the promise returned by before may settle: ReleaseCommand.before
\* throws a FatalError when the platform is not supported, IssuesCommand.before
\* throws nothing but FatalErrors and one when the platform is not jira,
\* PrepareCommand.before throws a FatalError when the attempt-cherry-pick
\* flag is set without the platform github or without a target branch
BeforeOutcomes ==
    IF cmd = "release" /\ Parameter("platform") # <<[str |-> "github"]>>
    THEN {"fatal"}
    ELSE IF cmd = "issues"
    THEN IF Parameter("platform") # <<[str |-> "jira"]>>
         THEN {"fatal"} ELSE {"resolve", "fatal"}
    ELSE IF /\ cmd = "prepare"
            /\ HasKey(ctxArguments.flags, "attempt-cherry-pick")
            /\ Get(ctxArguments.flags, "attempt-cherry-pick").value
            /\ \/ Parameter("platform") # <<[str |-> "github"]>>
               \/ Parameter("target-branch") = Undefined
    THEN {"fatal"}
    ELSE Outcomes

\* how the promise returned by main may settle: ReleaseCommand.main returns
\* ctx unless the platform is not github, which before has excluded; the
\* catch blocks of IssuesCommand.main and PrepareCommand.main turn every
\* error into a FatalError
MainOutcomes ==
    IF cmd = "release" THEN {"resolve"}
    ELSE IF cmd \in {"issues", "prepare"} THEN {"resolve", "fatal"}
    ELSE Outcomes

\* ReleaseCommand and PrepareCommand do not override after, and
\* IssuesCommand.after catches what its body throws
AfterOutcomes ==
    IF cmd \in {"release", "issues", "prepare"} THEN {"resolve"} ELSE Outcomes

\* what a hook may be: the method of Command ("default"), or an override
\* that resolves with the object it was passed, unchanged ("keep") or
\* changed ("mutate"), or an override that resolves with an object of its
\* own ("replace")
Impls == {"default", "keep", "mutate", "replace"}

\* the hooks of the command: ReleaseCommand overrides before, which sets
\* ctx.data.prepared unless the prepared argument was given, and main,
\* which returns ctx as it is, and inherits after; PrepareCommand inherits
\* after; IssuesCommand.before and after resolve with ctx as it is and its
\* main sets ctx.data.issues; the command "hooks" has
\* any hooks; the other commands override the three hooks as the comments
\* of Command require, each changing the context and resolving with it
HookImpls(h) ==
    IF cmd = "release"
    THEN IF h = "before"
         THEN {IF HasKey(ctxArguments.arguments, "prepared") THEN "keep" ELSE "mutate"}
         ELSE IF h = "main" THEN {"keep"} ELSE {"default"}
    ELSE IF cmd = "prepare" /\ h = "after" THEN {"default"}
    ELSE IF cmd = "issues" /\ h # "main" THEN {"keep"}
    ELSE IF cmd = "hooks" THEN Impls
    ELSE {"mutate"}

\* the hook h, being impl, settles with outcome: the default main logs its
\* warning, a mutating hook that resolves has changed the object it was
\* passed, and the promise resolves with that object or with the hook's own
HookRuns(t, h, impl, outcome) ==
    [t EXCEPT
        !.impl[h] = impl,
        !.warned = @ \/ (impl = "default" /\ h = "main"),
        !.mutations = IF impl = "mutate" /\ outcome = "resolve"
                         /\ t.passed[h] # Undefined
                      THEN [@ EXCEPT ![t.passed[h][1]] = Append(@, h)]
                      ELSE @,
        !.resolved[h] = IF outcome # "resolve" THEN Undefined
                        ELSE IF impl = "replace" THEN <<h>>
                        ELSE t.passed[h]]

\* mutant: every callback is called with the context that parse returned
ThenPassesParsed(t, h, callback) ==
    [t EXCEPT !.passed[callback] = t.passed.before]

\* promise.then(callback): the callback is called with the value the
\* promise of h resolved with
ThenPasses(t, h, callback) ==
    [t EXCEPT !.passed[callback] = t.resolved[h]]

\* mutant: the callback is registered for fulfilment and rejection alike
ThenRunsAlways(outcome) == TRUE

\* mutant: only a FatalError skips the callback
ThenRunsUnlessFatal(outcome) == outcome # "fatal"

\* promise.then(callback): the callback runs when the promise is fulfilled
ThenRuns(outcome) == outcome = "resolve"

Settled(outcome) == IF outcome = "resolve" THEN "resolved" ELSE "rejected"

\* mutant: the rejection is recorded but the chain stays at the hook
RejectStays(kind) ==
    /\ pc' = pc
    /\ err' = kind

\* a hook's promise rejects: the rest of the chain is skipped up to .catch
Reject(kind) ==
    /\ pc' = "rejected"
    /\ err' = kind

\* what ReleaseCommand.main has started when it returns: the call of
\* createGitHubPullRequest is not awaited, its promise is pending on fetch
\* ("running") or already rejected by a throw of its synchronous part
StartedWork == IF cmd = "release" THEN {"running", "failed"} ELSE {"none"}

\* ctx.arguments.arguments[name], Undefined when the key is absent
Argument(name) ==
    IF HasKey(ctxArguments.arguments, name)
    THEN <<Get(ctxArguments.arguments, name).value>>
    ELSE Undefined

\* ctx.arguments.flags[name] is truthy
FlagSet(name) ==
    /\ HasKey(ctxArguments.flags, name)
    /\ Get(ctxArguments.flags, name).value

\* the try block that writes a file to ~/.kraken/temp: the name is
\* `given || fallback`; writeFileSync replaces a file of that name, or it
\* throws, which the catch block logs
WriteFile(temp, given, fallback) ==
    LET filename == IF given # Undefined /\ given[1] # [str |-> ""]
                    THEN given[1].str ELSE fallback
    IN {temp,
        {f \in temp : f.name # filename} \cup {[name |-> filename, old |-> FALSE]}}

\* IssuesCommand.main: the issues are fetched, which may throw; when there
\* are some and the write flag is set they are written under
\* ctx.arguments.arguments.filename or the timestamp name
IssuesMain(w, outcome) ==
    IF outcome = "fatal" THEN {w}
    ELSE IF outcome = "resolve"
    THEN {w} \cup
         (IF FlagSet("write")
          THEN {[w EXCEPT !.temp = t] :
                    t \in WriteFile(w.temp, Argument("filename"),
                                    "issues-<timestamp>.json")}
          ELSE {})
    ELSE {}

\* IssuesCommand.after: every file of the temp directory whose age exceeds
\* the retention period is unlinked; without the directory, or on an error
\* before the first unlink, nothing is deleted; after always resolves
IssuesAfter(w, outcome) ==
    IF outcome = "resolve"
    THEN {w, [w EXCEPT !.temp = {f \in w.temp : ~f.old}]}
    ELSE {}

\* the branch attemptCherryPick creates when new-branch is not given
NewBranch == "release-<timestamp>"

\* PrepareCommand.attemptCherryPick, step being the command that fails
\* ("none": no command fails): a failure while the branch is created checks
\* the current branch out again and throws; a failure afterwards runs the
\* catch block, whose first command, git cherry-pick --abort, itself fails
\* unless a cherry-pick is in progress, that is unless the failure was a
\* cherry-pick that stopped on a conflict
AttemptCherryPick(w, step) ==
    LET created == [w EXCEPT !.branch = NewBranch,
                             !.branches = @ \cup {NewBranch},
                             !.failed = step]
        picking == step = "pick"
    IN IF step = "create"
       THEN [world |-> [w EXCEPT !.failed = step], throws |-> TRUE]
       ELSE IF step = "none"
       THEN [world |-> created, throws |-> FALSE]
       ELSE IF picking
       THEN [world |-> [created EXCEPT !.picking = FALSE,
                                       !.branch = w.branch,
                                       !.branches = @ \ {NewBranch},
                                       !.logged = TRUE],
             throws |-> FALSE]
       ELSE [world |-> created, throws |-> TRUE]

\* PrepareCommand.main: without queries, or with queries that were not
\* found, nothing is written; otherwise, with the write or the
\* attempt-cherry-pick flag, the hashes are written under
\* ctx.arguments.arguments.output or the timestamp name, and with the
\* attempt-cherry-pick flag attemptCherryPick runs; whatever is thrown
\* leaves main as a FatalError
PrepareMain(w, outcome) ==
    LET written == IF FlagSet("write") \/ FlagSet("attempt-cherry-pick")
                   THEN {[w EXCEPT !.temp = t] :
                            t \in WriteFile(w.temp, Argument("output"),
                                            "prepared-<timestamp>.json")}
                   ELSE {w}
        picked == IF FlagSet("attempt-cherry-pick")
                  THEN {AttemptCherryPick(v, step) :
                            v \in written,
                            step \in {"none", "create", "pick", "push"}}
                  ELSE {[world |-> v, throws |-> FALSE] : v \in written}
    IN IF outcome = "resolve"
       THEN {w} \cup {r.world : r \in {q \in picked : ~q.throws}}
       ELSE IF outcome = "fatal"
       THEN {w} \cup {r.world : r \in {q \in picked : q.throws}}
       ELSE {}

\* what the hook h may have done to the temp directory and the repository
\* when its promise settles with outcome
HookWorlds(h, outcome) ==
    IF cmd = "issues" /\ h = "main" THEN IssuesMain(world, outcome)
    ELSE IF cmd = "issues" /\ h = "after" THEN IssuesAfter(world, outcome)
    ELSE IF cmd = "prepare" /\ h = "main" THEN PrepareMain(world, outcome)
    ELSE {world}

\* before settles; on resolution .then(this.main) invokes main
BeforeSettle(outcome, started) ==
    /\ pc = "before"
    /\ outcome \in BeforeOutcomes
    /\ \E impl \in HookImpls("before") :
          /\ impl = "default" => outcome = "resolve"
          /\ threaded' = IF ThenRuns(outcome)
                          THEN ThenPasses(HookRuns(threaded, "before", impl, outcome),
                                          "before", "main")
                          ELSE HookRuns(threaded, "before", impl, outcome)
    /\ IF ThenRuns(outcome)
       THEN /\ started \in StartedWork
            /\ calls' = [calls EXCEPT !.main = @ + 1]
            /\ promise' = [promise EXCEPT !.before = Settled(outcome),
                                          !.main = "pending"]
            /\ work' = started
            /\ pc' = "main"
            /\ UNCHANGED err
       ELSE /\ started = "none"
            /\ promise' = [promise EXCEPT !.before = Settled(outcome)]
            /\ Reject(outcome)
            /\ UNCHANGED <<calls, work>>
    /\ UNCHANGED <<commandVars, parserVars, ctxVars, world, exitCode, reported,
                   message>>

\* main settles; on resolution .then(this.after) invokes after
MainSettle(outcome) ==
    /\ pc = "main"
    /\ outcome \in MainOutcomes
    /\ \E impl \in HookImpls("main") :
          /\ impl = "default" => outcome = "resolve"
          /\ threaded' = IF ThenRuns(outcome)
                          THEN ThenPasses(HookRuns(threaded, "main", impl, outcome),
                                          "main", "after")
                          ELSE HookRuns(threaded, "main", impl, outcome)
    /\ IF ThenRuns(outcome)
       THEN /\ calls' = [calls EXCEPT !.after = @ + 1]
            /\ promise' = [promise EXCEPT !.main = Settled(outcome),
                                          !.after = "pending"]
            /\ pc' = "after"
            /\ UNCHANGED err
       ELSE /\ promise' = [promise EXCEPT !.main = Settled(outcome)]
            /\ Reject(outcome)
            /\ UNCHANGED calls
    /\ world' \in HookWorlds("main", outcome)
    /\ UNCHANGED <<commandVars, parserVars, ctxVars, work, exitCode, reported, message>>

\* after settles; on resolution the last then callback of cli runs
AfterSettle(outcome) ==
    /\ pc = "after"
    /\ outcome \in AfterOutcomes
    /\ \E impl \in HookImpls("after") :
          /\ impl = "default" => outcome = "resolve"
          /\ threaded' = HookRuns(threaded, "after", impl, outcome)
    /\ promise' = [promise EXCEPT !.after = Settled(outcome)]
    /\ IF ThenRuns(outcome)
       THEN pc' = "complete" /\ UNCHANGED err
       ELSE Reject(outcome)
    /\ world' \in HookWorlds("after", outcome)
    /\ UNCHANGED <<commandVars, parserVars, ctxVars, calls, work, exitCode,
                   reported, message>>

ProcessAlive == pc \notin {"exited", "crashed"}

\* the fetch of createGitHubPullRequest settles: the request is answered and
\* the function returns, or it throws and its promise, which nothing
\* handles, rejects
WorkSettle(result) ==
    /\ ProcessAlive
    /\ work = "running"
    /\ work' = result
    /\ UNCHANGED <<commandVars, pc, parserVars, ctxVars, calls, promise, err, threaded,
                   world, exitCode, reported, message>>

\* the runtime ends the process on the unhandled rejection
UnhandledRejection ==
    /\ ProcessAlive
    /\ work = "failed"
    /\ pc' = "crashed"
    /\ UNCHANGED <<commandVars, parserVars, ctxVars, hookVars, exitCode, reported, message>>

AllCalls ==
    RegCalls \cup {ReleaseProgram[i] : i \in 1..Len(ReleaseProgram)}
            \cup {PlainProgram[i] : i \in 1..Len(PlainProgram)}
            \cup UNION {{ParsePrograms[k].program[i] :
                            i \in 1..Len(ParsePrograms[k].program)} :
                        k \in DOMAIN ParsePrograms}

Next ==
    \/ Construct
    \/ \E c \in AllCalls : RegisterArgument(c.name, c.opts)
    \/ \E c \in AllCalls : RegisterFlag(c.name, c.opts)
    \/ \E c \in AllCalls : RegisterParameter(c.name, c.opts)
    \/ /\ Constructed
       /\ \E command \in CommandInputs, tokens \in TokenStreams,
             versionRead \in BOOLEAN : Cli(command, tokens, versionRead)
    \/ GetConfigResolve
    \/ GetConfigReject
    \/ CliCatch
    \/ ParseArgumentsStep
    \/ ParseFlagsStep
    \/ ParseParametersStep
    \/ ExecuteBefore
    \/ \E outcome \in Outcomes, started \in {"none", "running", "failed"} :
          BeforeSettle(outcome, started)
    \/ \E outcome \in Outcomes : MainSettle(outcome)
    \/ \E outcome \in Outcomes : AfterSettle(outcome)
    \/ \E result \in {"done", "failed"} : WorkSettle(result)
    \/ UnhandledRejection

Spec == Init /\ [][Next]_vars

(***************************************************************************)
(* Properties of the pipeline.                                             *)
(***************************************************************************)

\* C1: main is invoked only after before has resolved, after only after main
\* has resolved, each hook is invoked at most once, and Complete is reached
\* only after after has resolved.
C1_StageOrder ==
    /\ \A h \in Hooks : calls[h] <= 1
    /\ \A h \in Hooks : calls[h] = 0 <=> promise[h] = "none"
    /\ calls.main > 0 => calls.before = 1 /\ promise.before = "resolved"
    /\ calls.after > 0 => calls.main = 1 /\ promise.main = "resolved"
    /\ pc = "complete" => calls.after = 1 /\ promise.after = "resolved"

\* a pipeline that ran its three hooks to Complete
C1_Witness ==
    /\ pc = "complete"
    /\ calls = [before |-> 1, main |-> 1, after |-> 1]

\* C2: when a phase of Parser.parse throws, no hook has been or will be
\* invoked, the error is reported and the process has exited with status 1.
C2_ParseFailureAborts ==
    err = "parse" =>
        /\ \A h \in Hooks : calls[h] = 0 /\ promise[h] = "none"
        /\ reported
        /\ pc = "exited"
        /\ exitCode # Undefined /\ exitCode[1] # 0

\* a parse that failed in its last phase, after the first two succeeded
C2_Witness ==
    /\ err = "parse"
    /\ parsedLocal.flags # <<>>
    /\ input # <<>>

\* C3: once a hook's promise has rejected, no later hook is invoked: a
\* rejected before leaves main and after uninvoked, a rejected main leaves
\* after uninvoked.
C3_FailureStopsPipeline ==
    /\ promise.before = "rejected" => calls.main = 0 /\ calls.after = 0
    /\ promise.main = "rejected" => calls.after = 0
    /\ err \in {"fatal", "nonfatal"} => pc \notin {"before", "main", "after", "complete"}

\* main was invoked and raised a fatal error; the error has been handled
C3_Witness ==
    /\ promise.main = "rejected"
    /\ err = "fatal"
    /\ pc = "exited"

\* C4: a FatalError that rejected a hook's promise is reported and the
\* process then exits with a non-zero status: once the .catch callback has
\* run, the error is reported and the process has exited with status 1.
C4_FatalErrorExits ==
    err = "fatal" =>
        /\ pc \in {"rejected", "exited"}
        /\ pc = "exited" => reported /\ exitCode # Undefined /\ exitCode[1] # 0

\* the after hook raised a FatalError and the process has exited
C4_Witness ==
    /\ err = "fatal"
    /\ promise.after = "rejected"
    /\ pc = "exited"

\* C5: an error other than a FatalError that rejected a hook's promise is
\* reported, no further hook runs, and the process is not exited: the
\* invocation stays halted.
C5_NonFatalErrorHalts ==
    err = "nonfatal" =>
        /\ pc \in {"rejected", "halted"}
        /\ exitCode = Undefined
        /\ pc = "halted" => reported
        /\ promise.before = "rejected" => calls.main = 0 /\ calls.after = 0
        /\ promise.main = "rejected" => calls.after = 0

\* main raised a non-fatal error and the invocation is halted
C5_Witness ==
    /\ err = "nonfatal"
    /\ promise.main = "rejected"
    /\ pc = "halted"

\* C6: when main's promise has resolved, the work main started is over, so
\* it does not overlap with after or outlast Complete, and when that work
\* fails, main's promise is rejected.
C6_StageAwaitsItsWork ==
    /\ promise.main = "resolved" => work \in {"none", "done"}
    /\ work = "failed" /\ promise.main # "pending" => promise.main = "rejected"

(***************************************************************************)
(* Properties of the extraction.                                           *)
(***************************************************************************)
Range(seq) == {seq[i] : i \in 1..Len(seq)}

\* Parser.parse returned: its three phases succeeded
ParseSucceeded == pc = "parsed" \/ calls.before > 0

\* C7: the phases run in the order arguments, flags, parameters on one
\* stream: the flags phase reads the stream the arguments phase left, the
\* parameters phase reads the stream the flags phase left, and the parsed
\* maps are the results of the phases applied in that order to the input.
C7_PhasesInOrder ==
    LET a == ParseArguments(input, arguments)
        f == ParseFlags(a.args, flags)
        p == ParseParameters(f.args, pattern, parameters)
    IN /\ pc = "parseArguments" => args = input
       /\ pc = "parseFlags" =>
             a.ok /\ args = a.args /\ parsedLocal.arguments = a.parsed
       /\ pc = "parseParameters" =>
             /\ a.ok /\ args = f.args
             /\ parsedLocal.arguments = a.parsed /\ parsedLocal.flags = f.parsed
       /\ ParseSucceeded =>
             /\ a.ok /\ p.ok /\ args = f.args
             /\ parsedLocal = [arguments |-> a.parsed, flags |-> f.parsed,
                               parameters |-> p.parsed]

\* a parse that recorded an argument, found a flag and assigned a parameter
C7_Witness ==
    /\ pc = "parsed"
    /\ parsedLocal.arguments # <<>>
    /\ \E i \in 1..Len(parsedLocal.flags) : parsedLocal.flags[i].value
    /\ parsedLocal.parameters # <<>>
    /\ Len(input) = 4

\* C8: after the flags phase, every registered flag is recorded true exactly
\* when `--<longName>` or `-<shortName>` occurs in the stream the arguments
\* phase left, and the flags phase has removed one token for each flag that
\* is present.
C8_FlagTrueIffTokenPresent ==
    pc = "parseParameters" =>
        LET stream == ParseArguments(input, arguments).args
        IN \A i \in 1..Len(flags) :
              LET long == "--" \o flags[i].name
                  hasShort == flags[i].shortHand # Undefined
                  short == "-" \o Template(flags[i].shortHand)
                  present == \/ long \in Range(stream)
                             \/ hasShort /\ short \in Range(stream)
              IN /\ HasKey(parsedLocal.flags, flags[i].name)
                 /\ Get(parsedLocal.flags, flags[i].name).value = present
                 /\ Len(args) = Len(stream) - Cardinality(
                        {j \in 1..Len(flags) :
                            \/ ("--" \o flags[j].name) \in Range(stream)
                            \/ /\ flags[j].shortHand # Undefined
                               /\ ("-" \o Template(flags[j].shortHand)) \in Range(stream)})

\* C9: after a successful parse the keys of ctx.arguments.flags are the long
\* names of the registered flags.
C9_EveryFlagHasAKey ==
    calls.before > 0 => Keys(ctxArguments.flags) = Keys(flags)

\* a successful parse with two registered flags, one of them named in the input
C9_Witness ==
    /\ calls.before > 0
    /\ Len(flags) = 2
    /\ \E i \in 1..Len(flags) : ("--" \o flags[i].name) \in Range(input)

\* the registered argument and flag specs, tagged with their namespace
Registered ==
    {<<"argument", arguments[i]>> : i \in 1..Len(arguments)}
        \cup {<<"flag", flags[i]>> : i \in 1..Len(flags)}

\* C10: no short name is shared by two registered specs, and no short name
\* is the long name of another spec.
C10_ShortNamesUnique ==
    \A s \in Registered, t \in Registered :
        s # t /\ s[2].shortHand # Undefined =>
            /\ s[2].shortHand # t[2].shortHand
            /\ s[2].shortHand[1] # t[2].name

(***************************************************************************)
(* The argument phase on its own: the command of PlainProgram is           *)
(* constructed, invoked with a stream over PlainTokens and parsed up to    *)
(* the end of parseArguments.                                              *)
(***************************************************************************)
InitArguments ==
    /\ cmd = "plain"
    /\ patternStr = PlainPattern
    /\ Fresh

NextArguments ==
    \/ Construct
    \/ \E c \in AllCalls : RegisterArgument(c.name, c.opts)
    \/ /\ Constructed
       /\ \E command \in CommandInputs, tokens \in TokenStreams,
             versionRead \in BOOLEAN : Cli(command, tokens, versionRead)
    \/ GetConfigResolve
    \/ ParseArgumentsStep

SpecArguments == InitArguments /\ [][NextArguments]_vars

(***************************************************************************)
(* The parse on its own: a command of ParsePrograms is constructed,        *)
(* invoked with a stream over its tokens and parsed; the run stops when    *)
(* Parser.parse has returned or thrown.                                    *)
(***************************************************************************)
InitParse ==
    /\ cmd \in DOMAIN ParsePrograms \ {"issues", "prepare"}
    /\ patternStr = ParsePrograms[cmd].pattern
    /\ Fresh

NextParse ==
    \/ Construct
    \/ \E c \in AllCalls : RegisterArgument(c.name, c.opts)
    \/ \E c \in AllCalls : RegisterFlag(c.name, c.opts)
    \/ \E c \in AllCalls : RegisterParameter(c.name, c.opts)
    \/ /\ Constructed
       /\ \E command \in CommandInputs, tokens \in TokenStreams,
             versionRead \in BOOLEAN : Cli(command, tokens, versionRead)
    \/ GetConfigResolve
    \/ ParseArgumentsStep
    \/ ParseFlagsStep
    \/ ParseParametersStep

SpecParse == InitParse /\ [][NextParse]_vars

(***************************************************************************)
(* The hooks on their own: the command "hooks" is invoked without tokens   *)
(* and its three hooks are each the default or an override that keeps,     *)
(* changes or replaces the context.                                        *)
(***************************************************************************)
InitHooks ==
    /\ cmd = "hooks"
    /\ patternStr = ParsePrograms[cmd].pattern
    /\ Fresh

NextHooks ==
    \/ Construct
    \/ /\ Constructed
       /\ \E command \in CommandInputs, tokens \in TokenStreams,
             versionRead \in BOOLEAN : Cli(command, tokens, versionRead)
    \/ GetConfigResolve
    \/ ParseArgumentsStep
    \/ ParseFlagsStep
    \/ ParseParametersStep
    \/ ExecuteBefore
    \/ \E outcome \in Outcomes, started \in {"none", "running", "failed"} :
          BeforeSettle(outcome, started)
    \/ \E outcome \in Outcomes : MainSettle(outcome)
    \/ \E outcome \in Outcomes : AfterSettle(outcome)

SpecHooks == InitHooks /\ [][NextHooks]_vars

(***************************************************************************)
(* IssuesCommand and PrepareCommand: the constructor's registrations, the  *)
(* parse of a stream over the command's tokens and the three hooks with    *)
(* what they do to ~/.kraken/temp and to the git repository.               *)
(***************************************************************************)
InitCommands ==
    /\ cmd \in {"issues", "prepare"}
    /\ patternStr = ParsePrograms[cmd].pattern
    /\ Fresh

NextCommands ==
    \/ Construct
    \/ \E c \in AllCalls : RegisterArgument(c.name, c.opts)
    \/ \E c \in AllCalls : RegisterFlag(c.name, c.opts)
    \/ \E c \in AllCalls : RegisterParameter(c.name, c.opts)
    \/ /\ Constructed
       /\ \E command \in CommandInputs, tokens \in TokenStreams,
             versionRead \in BOOLEAN : Cli(command, tokens, versionRead)
    \/ GetConfigResolve
    \/ ParseArgumentsStep
    \/ ParseFlagsStep
    \/ ParseParametersStep
    \/ ExecuteBefore
    \/ \E outcome \in Outcomes, started \in {"none", "running", "failed"} :
          BeforeSettle(outcome, started)
    \/ \E outcome \in Outcomes : MainSettle(outcome)
    \/ \E outcome \in Outcomes : AfterSettle(outcome)

SpecCommands == InitCommands /\ [][NextCommands]_vars

\* the hooks with progress: execute calls before in the same synchronous
\* run in which parse returned, and the promise of every hook that was
\* invoked settles at some time
SpecHooksSettle ==
    /\ SpecHooks
    /\ WF_vars(ExecuteBefore)
    /\ WF_vars(\E outcome \in Outcomes, started \in {"none", "running", "failed"} :
                  BeforeSettle(outcome, started))
    /\ WF_vars(\E outcome \in Outcomes : MainSettle(outcome))
    /\ WF_vars(\E outcome \in Outcomes : AfterSettle(outcome))

(***************************************************************************)
(* Pattern compilation on its own: the pattern string is any command name  *)
(* followed by up to MaxParams parameter tokens, each `<name>` or          *)
(* `<name?>`, separated by single spaces.                                  *)
(***************************************************************************)
\* a parameter as the pattern string writes it
ParameterTokens == [name : {"a", "b"}, optional : BOOLEAN]

ParameterText(t) == "<" \o t.name \o (IF t.optional THEN "?" ELSE "") \o ">"

RECURSIVE PatternText(_)
\* the pattern string of the command cmd with the parameters ts
PatternText(ts) ==
    IF ts = <<>> THEN "<cmd>"
    ELSE PatternText(SubSeq(ts, 1, Len(ts) - 1)) \o " " \o ParameterText(ts[Len(ts)])

ParameterLists == SeqsUpTo(ParameterTokens, MaxParams)

InitPattern ==
    /\ cmd = "generic"
    /\ patternStr \in {PatternText(ts) : ts \in ParameterLists}
    /\ Fresh

NextPattern == Construct

SpecPattern == InitPattern /\ [][NextPattern]_vars

(***************************************************************************)
(* Properties of the registrations.                                        *)
(***************************************************************************)
\* C11: a long name is registered at most once and in at most one of the
\* two namespaces: the registries share no key, no registry holds a name
\* twice, every registration call that returned added a spec of its own
\* (none replaced an earlier one), and a call that found its identifier
\* registered has ended the process.
C11_LongNamesUnique ==
    /\ Keys(arguments) \cap Keys(flags) = {}
    /\ Cardinality(Keys(arguments)) = Len(arguments)
    /\ Cardinality(Keys(flags)) = Len(flags)
    /\ pc = "registering" => Len(arguments) + Len(flags) + Len(parameters) = regs
    /\ \A id \in Keys(arguments) \cup Keys(flags), type \in {"argument", "flag"} :
          message = <<type \o " with identifier " \o id \o " already exists">> =>
              /\ pc = "exited"
              /\ HasKey(IF type = "argument" THEN arguments ELSE flags, id)

\* the flag foo is registered and a later registration of the long name foo,
\* as an argument or once more as a flag, has failed
C11_Witness ==
    /\ message = <<"flag with identifier foo already exists">>
    /\ HasKey(flags, "foo")
    /\ ~HasKey(arguments, "foo")
    /\ pc = "exited"

\* the names of the compiled pattern's parameters
PatternNames == {pattern[i].name : i \in 1..Len(pattern)}

\* C12: the registered parameter names are names of the pattern, none is
\* empty and none is registered twice; a registerParameter call with an empty
\* name, with a name the pattern does not declare or with a name already
\* registered has thrown, which ended the process.
C12_ParametersAreInPattern ==
    /\ Keys(parameters) \subseteq PatternNames
    /\ "" \notin Keys(parameters)
    /\ Cardinality(Keys(parameters)) = Len(parameters)
    /\ message = <<"no name found in parameter registration">> => pc = "exited"
    /\ \A c \in AllCalls :
          /\ message = <<c.name \o " was not specified in pattern">> =>
                pc = "exited" /\ c.name \notin PatternNames
                /\ ~HasKey(parameters, c.name)
          /\ message = <<c.name \o " is already a registered parameter">> =>
                pc = "exited" /\ c.name \in PatternNames
                /\ HasKey(parameters, c.name)

\* parameter a was registered, and registering c, which the pattern
\* <cmd> <a> <b?> does not declare, has failed
C12_Witness ==
    /\ message = <<"c was not specified in pattern">>
    /\ Keys(parameters) = {"a"}
    /\ PatternNames = {"a", "b"}
    /\ pc = "exited"

(***************************************************************************)
(* Properties of the pattern compilation.                                  *)
(***************************************************************************)
\* the parameters that the pattern string was written from
Written == CHOOSE ts \in ParameterLists : PatternText(ts) = patternStr

\* a required parameter is written after an optional one
RequiredAfterOptional(ts) ==
    \E i \in 1..Len(ts), j \in 1..Len(ts) :
        i < j /\ ts[i].optional /\ ~ts[j].optional

\* the constructor of the parser has returned
Compiled == pc \notin {"new", "crashed"}

\* C13: in a compiled pattern every parameter after an optional one is
\* optional, and the constructor throws exactly for the pattern strings that
\* write a required parameter after an optional one.
C13_RequiredBeforeOptional ==
    /\ Compiled =>
          \A i \in 1..Len(pattern), j \in 1..Len(pattern) :
              i < j /\ ~pattern[i].required => ~pattern[j].required
    /\ pc # "new" => (pc = "crashed" <=> RequiredAfterOptional(Written))

\* the constructor has thrown on the pattern <cmd> <a?> <b>
C13_Witness ==
    /\ patternStr = "<cmd> <a?> <b>"
    /\ pc = "crashed"
    /\ pattern = <<>>

\* C14: the compiled pattern has one spec for each parameter written after
\* the command name, in the order written, named as written and optional
\* exactly when written with `?`; a pattern string that is only the command
\* name compiles to the empty sequence.
C14_OneSpecPerToken ==
    Compiled =>
        /\ Len(pattern) = Len(Written)
        /\ \A i \in 1..Len(pattern) :
              pattern[i] = [name |-> Written[i].name,
                            required |-> ~Written[i].optional]
        /\ patternStr = "<cmd>" => pattern = <<>>

\* a pattern of three parameters, the last two optional, has been compiled
C14_Witness ==
    /\ patternStr = "<cmd> <b> <a?> <b?>"
    /\ pattern = << [name |-> "b", required |-> TRUE],
                    [name |-> "a", required |-> FALSE],
                    [name |-> "b", required |-> FALSE] >>
    /\ pc = "registering"

(***************************************************************************)
(* Properties of the argument phase.                                       *)
(***************************************************************************)
\* the identifiers of all registered arguments
ArgumentIdentifiers ==
    UNION {Range(Identifiers(arguments[k])) : k \in 1..Len(arguments)}

\* the first position of token x in the stream seq (x occurs in seq)
FirstAt(seq, x) ==
    CHOOSE i \in 1..Len(seq) : seq[i] = x /\ \A j \in 1..(i - 1) : seq[j] # x

\* the stream seq without the tokens at positions i and i + 1
WithoutPair(seq, i) ==
    [k \in 1..(Len(seq) - 2) |-> IF k < i THEN seq[k] ELSE seq[k + 2]]

\* the argument phase of the parse has been run on input
ArgumentPhaseOver == pc \in {"parseFlags", "parseParameters"} \/ ParseSucceeded
                        \/ err = "parse"

\* C15: take an input in which exactly one identifier of the registered
\* arguments occurs, first at position i with a token after it whose cast
\* and validation succeed, no identifier occurring in what is left once the
\* two tokens are taken out.  Then the argument phase does not fail, it
\* records the cast of the token at i + 1 under the argument's long name and
\* nothing else, and it leaves the input without the tokens at i and i + 1,
\* the other tokens in their order.
C15_ArgumentPairConsumed ==
    \A k \in 1..Len(arguments), id \in ArgumentIdentifiers :
        LET item == arguments[k]
            i == FirstAt(input, id)
            cast == CastToType(input[i + 1], item.type)
            left == WithoutPair(input, i)
        IN (/\ ArgumentPhaseOver
            /\ ArgumentIdentifiers \cap Range(input) = {id}
            /\ id \in Range(Identifiers(item))
            /\ i + 1 <= Len(input)
            /\ cast.ok
            /\ item.validate # Undefined => Validate(item.validate[1], cast.value)
            /\ ArgumentIdentifiers \cap Range(left) = {})
           => /\ parsedLocal.arguments = <<[name |-> item.name, value |-> cast.value]>>
              /\ pc = "parseFlags" => args = left
              /\ message \notin {<<"no value passed to " \o id>>,
                                  <<item.name \o " failed validation">>,
                                  <<CastError(input[i + 1], item.type)>>}

\* -n 1 was taken out of the middle of 1 -n 1 0 and num recorded as 1
C15_Witness ==
    /\ pc = "parseFlags"
    /\ input = <<"1", "-n", "1", "0">>
    /\ args = <<"1", "0">>
    /\ parsedLocal.arguments =
          <<[name |-> "num", value |-> [sign |-> 1, whole |-> 1, frac |-> ""]]>>
    /\ Len(arguments) = 2

\* the tokens that name the argument item: `--<longName>` and, when the
\* argument has a short name, `-<shortName>`
NamingTokens(item) ==
    {"--" \o item.name}
        \cup (IF item.shortHand = Undefined THEN {} ELSE {"-" \o item.shortHand[1]})

\* no token that names an argument stands in the input right after a token
\* that names an argument, where it would be that argument's value
ValuesAreNotNames ==
    LET names == UNION {NamingTokens(arguments[k]) : k \in 1..Len(arguments)}
    IN \A i \in 1..(Len(input) - 1) :
           input[i] \in names => input[i + 1] \notin names

\* C16: after a successful argument phase the keys of the parsed arguments
\* are the long names of exactly the registered arguments one of whose
\* tokens `--<longName>`, `-<shortName>` is in the input (no token naming an
\* argument being the value of another); an argument none of whose tokens
\* is in the input has no key.
C16_KeysAreTheArgumentsFound ==
    pc = "parseFlags" /\ ValuesAreNotNames =>
        Keys(parsedLocal.arguments) =
            {arguments[k].name : k \in
                {j \in 1..Len(arguments) :
                    NamingTokens(arguments[j]) \cap Range(input) # {}}}

\* C17: when the one token of the input that the argument phase searches
\* for is its last token, so that no token follows it, the phase throws
\* 'no value passed to <token>': the error is logged, nothing is recorded, the
\* stream is left as it was and the process exits.
C17_NoValuePassed ==
    \A id \in ArgumentIdentifiers :
        (/\ ArgumentPhaseOver
         /\ ArgumentIdentifiers \cap Range(input) = {id}
         /\ FirstAt(input, id) = Len(input))
        => /\ err = "parse"
           /\ message = <<"no value passed to " \o id>>
           /\ parsedLocal = EmptyParsed
           /\ args = input
           /\ pc = "exited"

\* the input 1 -n ends with the token naming the argument num
C17_Witness ==
    /\ input = <<"1", "-n">>
    /\ HasKey(arguments, "num")
    /\ message = <<"no value passed to -n">>
    /\ pc = "exited"

\* the cast value is a number that is not greater than zero
NotPositive(value) ==
    /\ "sign" \in DOMAIN value
    /\ value.sign = -1 \/ (value.whole = 0 /\ value.frac = "")

\* C18: when the one identifier of the input that the argument phase
\* searches for belongs to an argument with the validator isPositive, and
\* the cast of the token after it is not positive, the phase throws
\* '<name> failed validation': no value is recorded, the two tokens stay in
\* the stream, the error is logged and the process exits.
C18_FailedValidation ==
    \A k \in 1..Len(arguments), id \in ArgumentIdentifiers :
        LET item == arguments[k]
            i == FirstAt(input, id)
            cast == CastToType(input[i + 1], item.type)
        IN (/\ ArgumentPhaseOver
            /\ ArgumentIdentifiers \cap Range(input) = {id}
            /\ id \in Range(Identifiers(item))
            /\ i + 1 <= Len(input)
            /\ cast.ok
            /\ item.validate = <<"isPositive">>
            /\ NotPositive(cast.value))
           => /\ err = "parse"
              /\ message = <<item.name \o " failed validation">>
              /\ parsedLocal = EmptyParsed
              /\ args = input
              /\ pc = "exited"

\* the validator of num has rejected 0 in the input 1 -n 0
C18_Witness ==
    /\ input = <<"1", "-n", "0">>
    /\ args = input
    /\ message = <<"num failed validation">>
    /\ parsedLocal.arguments = <<>>
    /\ pc = "exited"

(***************************************************************************)
(* Properties of the parameter phase.                                      *)
(***************************************************************************)
\* the parameter phase of the parse has been run: the parse is over and the
\* argument phase did not throw (the flags phase never throws)
ParameterPhaseOver ==
    /\ ParseSucceeded \/ err = "parse"
    /\ ParseArguments(input, arguments).ok

\* C19: when more tokens are left after the argument and flag phases than
\* the pattern has parameters, the parameter phase throws 'invalid command
\* structure': no parameter is recorded, no hook is invoked, the error is
\* logged and the process exits; a parse that succeeded left no more tokens
\* than the pattern has parameters.
C19_TooManyTokens ==
    /\ ParseSucceeded => Len(args) <= Len(pattern)
    /\ ParameterPhaseOver /\ Len(args) > Len(pattern) =>
          /\ err = "parse"
          /\ message = <<"invalid command structure - expected "
                         \o NumberToString(Len(pattern))
                         \o " parameters, but found "
                         \o NumberToString(Len(args))>>
          /\ parsedLocal.parameters = <<>>
          /\ ctxArguments = EmptyParsed
          /\ \A h \in Hooks : calls[h] = 0
          /\ pc = "exited"

\* github main main was entered for the pattern of release, which has two
\* parameters
C19_Witness ==
    /\ cmd = "release"
    /\ input = <<"github", "main", "main">>
    /\ message = <<"invalid command structure - expected 2 parameters, but found 3">>
    /\ pc = "exited"

TokensAssignable ==
    /\ Len(args) <= Len(pattern)
    /\ \A i \in 1..Len(args) :
          /\ HasKey(parameters, pattern[i].name)
          /\ CastToType(args[i], Get(parameters, pattern[i].name).type).ok

\* C21: after a successful parse every required parameter of the pattern
\* has a key in the parsed parameters; when the tokens left by the argument
\* and flag phases are too few to reach a required parameter, the parameter
\* phase throws '<name> is required' for the first such parameter, no hook
\* is invoked and the process exits.
C21_RequiredParameterMissing ==
    /\ ParseSucceeded =>
          \A i \in 1..Len(pattern) :
              pattern[i].required =>
                  i <= Len(args) /\ HasKey(parsedLocal.parameters, pattern[i].name)
    /\ \A i \in 1..Len(pattern) :
          (/\ i > Len(args)
           /\ pattern[i].required
           /\ \A j \in (Len(args) + 1)..(i - 1) : ~pattern[j].required
           /\ TokensAssignable
           /\ ParameterPhaseOver)
          => /\ err = "parse"
             /\ message = <<pattern[i].name \o " is required">>
             /\ parsedLocal.parameters = <<>>
             /\ \A h \in Hooks : calls[h] = 0
             /\ pc = "exited"

\* release was given its platform but not its target branch
C21_Witness ==
    /\ cmd = "release"
    /\ input = <<"github">>
    /\ message = <<"target-branch is required">>
    /\ pc = "exited"

\* the text s begins with the text p
StartsWith(s, p) == Len(p) <= Len(s) /\ SubSeq(s, 1, Len(p)) = p

\* C22: when a token is left at the position of a pattern parameter whose
\* name no registerParameter call registered, the positions before it
\* holding registered names, the parameter phase throws an error that
\* begins '<name> is not a registered parameter': nothing is recorded, no
\* hook is invoked and the process exits.
C22_UnregisteredParameter ==
    \A i \in 1..Len(pattern) :
        (/\ Len(args) <= Len(pattern)
         /\ i <= Len(args)
         /\ ~HasKey(parameters, pattern[i].name)
         /\ ParameterPhaseOver
         /\ \A j \in 1..(i - 1) :
               /\ HasKey(parameters, pattern[j].name)
               /\ CastToType(args[j], Get(parameters, pattern[j].name).type).ok)
        => /\ err = "parse"
           /\ message # Undefined
           /\ StartsWith(message[1], pattern[i].name \o " is not a registered parameter")
           /\ parsedLocal.parameters = <<>>
           /\ \A h \in Hooks : calls[h] = 0
           /\ pc = "exited"

\* the pattern <cmd> <a> <b?> with a registered and b not, and two tokens
\* left for the parameters
C22_Witness ==
    /\ patternStr = "<cmd> <a> <b?>"
    /\ Keys(parameters) = {"a"}
    /\ Len(args) = 2
    /\ message = <<"b is not a registered parameters">>
    /\ pc = "exited"

(***************************************************************************)
(* Properties of the extraction as a whole.                                *)
(***************************************************************************)
\* the tokens that name the flag item: `--<longName>` and, when the flag has
\* a short name, `-<shortName>`
FlagTokens(item) ==
    {"--" \o item.name}
        \cup (IF item.shortHand = Undefined THEN {} ELSE {"-" \o item.shortHand[1]})

\* the tokens that name a registered argument or flag other than the
\* argument a and the flag f
OtherNamingTokens(a, f) ==
    UNION ({NamingTokens(arguments[k]) : k \in 1..Len(arguments) \ {a}}
               \cup {FlagTokens(flags[m]) : m \in 1..Len(flags) \ {f}})

\* C23: when the input is one token naming a registered argument followed
\* by a value, and one token naming a registered flag, before or after that
\* pair, the three tokens naming nothing else, a successful parse has
\* recorded the cast of the value under the argument's long name and
\* nothing else, has recorded that flag true and every other registered
\* flag false, and has left the stream empty.
C23_ArgumentAndFlag ==
    \A a \in 1..Len(arguments), f \in 1..Len(flags) :
        \A id \in NamingTokens(arguments[a]), ft \in FlagTokens(flags[f]) :
            (/\ ParseSucceeded
             /\ Len(input) = 3
             /\ \E v \in Range(input) :
                   /\ input \in {<<id, v, ft>>, <<ft, id, v>>}
                   /\ v \notin NamingTokens(arguments[a]) \cup FlagTokens(flags[f])
                                  \cup OtherNamingTokens(a, f)
             /\ id \notin FlagTokens(flags[f]) \cup OtherNamingTokens(a, f)
             /\ ft \notin NamingTokens(arguments[a]) \cup OtherNamingTokens(a, f))
            => /\ args = <<>>
               /\ Keys(parsedLocal.arguments) = {arguments[a].name}
               /\ \E v \in Range(input) :
                     /\ input \in {<<id, v, ft>>, <<ft, id, v>>}
                     /\ Get(parsedLocal.arguments, arguments[a].name).value =
                           CastToType(v, arguments[a].type).value
               /\ Keys(parsedLocal.flags) = Keys(flags)
               /\ \A m \in 1..Len(flags) :
                     Get(parsedLocal.flags, flags[m].name).value = (m = f)

\* C24: after every successful parse the tokens that the argument and flag
\* phases left in the stream are each recorded as the value of one
\* positional parameter, the token at position i under the name of
\* position i of the pattern, and there are as many parsed parameters as
\* tokens left.
C24_NoTokenDropped ==
    ParseSucceeded
    => /\ Len(parsedLocal.parameters) = Len(args)
       /\ \A i \in 1..Len(args) :
             /\ i <= Len(pattern)
             /\ HasKey(parsedLocal.parameters, pattern[i].name)
             /\ Get(parsedLocal.parameters, pattern[i].name).value =
                   CastToType(args[i], Get(parameters, pattern[i].name).type).value

\* C25: when the input is empty and every parameter of the pattern is
\* optional, the parse does not fail, and once it has succeeded the parsed
\* arguments and the parsed parameters are empty, every registered flag is
\* recorded false and the stream is still empty; the three phases applied
\* again to that stream succeed with the same three maps and the same
\* stream.
C25_EmptyInputAllOptional ==
    (input = <<>> /\ \A i \in 1..Len(pattern) : ~pattern[i].required)
    => /\ err # "parse"
       /\ ParseSucceeded =>
             /\ args = <<>>
             /\ parsedLocal.arguments = <<>>
             /\ parsedLocal.parameters = <<>>
             /\ Keys(parsedLocal.flags) = Keys(flags)
             /\ \A m \in 1..Len(flags) :
                   Get(parsedLocal.flags, flags[m].name).value = FALSE
             /\ LET a == ParseArguments(args, arguments)
                    f == ParseFlags(a.args, flags)
                    p == ParseParameters(f.args, pattern, parameters)
                IN /\ a.ok /\ f.ok /\ p.ok
                   /\ p.args = args
                   /\ [arguments |-> a.parsed, flags |-> f.parsed,
                       parameters |-> p.parsed] = parsedLocal

C25_Witness ==
    /\ cmd = "optional" /\ pc = "parsed" /\ input = <<>>
    /\ Len(pattern) = 2 /\ Len(arguments) = 1
    /\ Keys(parsedLocal.flags) = {"bar", "baz"}

\* the hooks, in the order of the pipeline, that changed the context: those
\* that were passed it, change what they are passed and have resolved
ContextChangedBy ==
    LET Changed(h) == /\ threaded.impl[h] = "mutate"
                      /\ threaded.passed[h] = <<"ctx">>
                      /\ threaded.resolved[h] # Undefined
    IN SelectSeq(<<"before", "main", "after">>, Changed)

\* C26: before is passed the context, main is passed what before resolved
\* with and after is passed what main resolved with; the changes made to
\* the context are those of the hooks that were passed it, in the order
\* before, main, after; a default hook resolves, with the object it was
\* passed, and has changed no object; the warning is logged exactly when
\* the default main has run.
C26_ContextThreaded ==
    /\ calls.before > 0 => threaded.passed.before = <<"ctx">>
    /\ calls.main > 0 =>
          /\ threaded.passed.main # Undefined
          /\ threaded.passed.main = threaded.resolved.before
    /\ calls.after > 0 =>
          /\ threaded.passed.after # Undefined
          /\ threaded.passed.after = threaded.resolved.main
    /\ threaded.mutations["ctx"] = ContextChangedBy
    /\ \A h \in Hooks :
          threaded.impl[h] = "default" =>
             /\ promise[h] = "resolved"
             /\ threaded.resolved[h] = threaded.passed[h]
             /\ \A r \in Refs : h \notin Range(threaded.mutations[r])
    /\ threaded.warned <=> threaded.impl.main = "default"

C26_Witness ==
    /\ pc = "complete"
    /\ threaded.impl = [before |-> "mutate", main |-> "default", after |-> "mutate"]
    /\ threaded.mutations["ctx"] = <<"before", "after">>
    /\ threaded.passed.after = <<"ctx">>
    /\ threaded.warned

\* the process is inside Parser.parse
Parsing == pc \in {"parseArguments", "parseFlags", "parseParameters"}

\* C27: a step of the parse, whether the phase returns or throws, leaves
\* the compiled pattern and the registries of arguments, flags and
\* parameters as they were, and what is changed is the token stream or the
\* parsed maps.
C27_ParseKeepsRegistries ==
    [][Parsing => /\ pattern' = pattern
                  /\ arguments' = arguments
                  /\ flags' = flags
                  /\ parameters' = parameters
                  /\ UNCHANGED <<cmd, patternStr, regs, input>>]_vars

C27_Witness ==
    /\ cmd = "optional" /\ pc = "parsed"
    /\ input = <<"--foo", "1", "-b", "1">> /\ args = <<"1">>
    /\ Len(arguments) = 1 /\ Len(flags) = 2 /\ Len(parameters) = 2 /\ Len(pattern) = 2

\* C28: while the parse is running and after it has failed, in whichever
\* phase, the three parsed maps of the context are as cli built them,
\* empty; in particular the results of the phases that had succeeded
\* before the failure are not in the context.
C28_FailedParseLeavesContext ==
    (Parsing \/ err = "parse") => ctxArguments = EmptyParsed

C28_Witness ==
    /\ err = "parse" /\ pc = "exited"
    /\ parsedLocal.arguments # <<>>
    /\ Keys(parsedLocal.flags) # {}
    /\ ctxArguments = EmptyParsed

\* C29: no argument and no parameter is in a registry with a type other
\* than string, int, float and boolean, a registration with such a type
\* having been refused, and no parse fails with castToType's error about
\* the type.
C29_UnknownTypeRejected ==
    /\ \A k \in 1..Len(arguments) : arguments[k].type \in Types
    /\ \A k \in 1..Len(parameters) : parameters[k].type \in Types
    /\ (err = "parse" /\ message # Undefined)
          => ~StartsWith(message[1], "invalid type received")

\* the spellings of true: `true` in any mix of cases, `t`, `T` and `1`
TrueWords ==
    {a \o b \o c \o d : a \in {"t", "T"}, b \in {"r", "R"}, c \in {"u", "U"},
                         d \in {"e", "E"}}
        \cup {"t", "T", "1"}

\* a spelling of true with blanks before and after it
TrueSpellings ==
    LET Blanks == StringsUpTo({" "}, MaxChars)
    IN {before \o word \o after :
           before \in Blanks, word \in TrueWords, after \in Blanks}

\* C30: the parse of one value for a boolean parameter does not fail, and
\* the value recorded is true when the value entered is a spelling of true
\* with or without blanks around it, and false for every other value, the
\* empty string among them.
C30_BooleanCast ==
    (cmd = "boolean" /\ Len(input) = 1 /\ (ParseSucceeded \/ err = "parse"))
    => /\ ParseSucceeded
       /\ HasKey(parsedLocal.parameters, "b")
       /\ Get(parsedLocal.parameters, "b").value =
             [bool |-> input[1] \in TrueSpellings]

C30_Witness ==
    /\ cmd = "boolean" /\ pc = "parsed" /\ input = <<" T ">>
    /\ Get(parsedLocal.parameters, "b").value = [bool |-> TRUE]

\* the tokens of the command "numeric" that are numerals, with the numbers
\* they denote; its other tokens (`abc`, `5x`, `-c`) denote no number
Numerals ==
    [v \in {"5", "3.5"} |->
        IF v = "5" THEN [sign |-> 1, whole |-> 5, frac |-> ""]
        ELSE [sign |-> 1, whole |-> 3, frac |-> "5"]]

\* C31: when the token after the identifier of an int argument, or the
\* token at the position of a float parameter, is not a numeral, the parse
\* fails with the cast's error naming the value and the type, nothing is
\* recorded for it and no hook is invoked; when it is a numeral of the type
\* the number it denotes is recorded.
C31_NumericCast ==
    /\ (cmd = "numeric" /\ ArgumentPhaseOver /\ "-c" \in Range(input)
            /\ FirstAt(input, "-c") < Len(input)) =>
          LET v == input[FirstAt(input, "-c") + 1]
          IN /\ v \notin DOMAIN Numerals =>
                   /\ err = "parse" /\ pc = "exited"
                   /\ message = <<v \o " is not of type int">>
                   /\ parsedLocal = EmptyParsed
                   /\ \A h \in Hooks : calls[h] = 0
             /\ v = "5" =>
                   /\ HasKey(parsedLocal.arguments, "count")
                   /\ Get(parsedLocal.arguments, "count").value = Numerals[v]
    /\ (cmd = "numeric" /\ (ParseSucceeded \/ err = "parse")
            /\ "-c" \notin Range(input) /\ Len(input) = 1) =>
          LET v == input[1]
          IN /\ v \notin DOMAIN Numerals =>
                   /\ err = "parse" /\ pc = "exited"
                   /\ message = <<v \o " is not of type float">>
                   /\ parsedLocal.parameters = <<>>
                   /\ \A h \in Hooks : calls[h] = 0
             /\ v \in DOMAIN Numerals =>
                   /\ HasKey(parsedLocal.parameters, "ratio")
                   /\ Get(parsedLocal.parameters, "ratio").value = Numerals[v]

\* C32: when the hooks' promises settle, a parse that has succeeded is
\* followed at some time by the end of the pipeline, the last callback of
\* the chain (complete) or its rejection (aborted): the process does not
\* stay in before, main or after.
C32_PipelineEnds == ParseSucceeded ~> pc \in {"complete", "rejected"}

C32_Witness ==
    /\ cmd = "hooks" /\ pc = "complete"
    /\ calls = [before |-> 1, main |-> 1, after |-> 1]
    /\ threaded.impl = [before |-> "keep", main |-> "keep", after |-> "keep"]


(***************************************************************************)
(* What the hooks of IssuesCommand and PrepareCommand do to the temp       *)
(* directory and to the repository.                                        *)
(***************************************************************************)
\* C33: the issues command deletes from ~/.kraken/temp only files whose
\* name begins with issues- and that are older than the retention period;
\* every other file of the directory is still there when the command ends
C33_OnlyOldIssuesFilesDeleted ==
    cmd = "issues" =>
        \A f \in TempFiles :
            f \notin world.temp => StartsWith(f.name, "issues-") /\ f.old

\* C34: when the write-to argument was given, a file that the issues or the
\* prepare command writes to ~/.kraken/temp has the name that was given; a
\* file with the timestamp name is written only without the argument
C34_WrittenUnderGivenName ==
    (cmd \in {"issues", "prepare"} /\ Argument("write-to") # Undefined) =>
        \A f \in world.temp \ TempFiles :
            [str |-> f.name] = Argument("write-to")[1]

\* C35: when prepare runs with attempt-cherry-pick and a cherry-pick or the
\* final push fails after the new branch was created, no cherry-pick is
\* left in progress, the branch that was checked out before is checked out
\* again, the new branch is deleted, the failure is logged and main
\* resolves
C35_FailedCherryPickUndone ==
    (cmd = "prepare" /\ world.failed \in {"pick", "push"}) =>
        /\ ~world.picking
        /\ world.branch = InitWorld.branch
        /\ NewBranch \notin world.branches
        /\ world.logged
        /\ promise.main = "resolved"

(***************************************************************************)
(* The value of an argument is the next token, whatever it is.             *)
(***************************************************************************)
\* the token x occurs exactly once in the stream seq
OccursOnce(seq, x) == Cardinality({i \in 1..Len(seq) : seq[i] = x}) = 1

\* C36: after a successful parse, for an argument that was entered once,
\* by one of its identifiers, with no identifier of an argument registered
\* before it in the input, the value recorded is the cast of the token that
\* follows the identifier, whatever that token is: when it is the only
\* occurrence of a token that names a registered flag, that flag is
\* recorded false, and when it is the only identifier in the input of an
\* argument registered later, that argument is not recorded.
C36_NextTokenIsTheValue ==
    ParseSucceeded =>
        \A a \in 1..Len(arguments) :
            \A id \in NamingTokens(arguments[a]) :
                (/\ Range(input) \cap NamingTokens(arguments[a]) = {id}
                 /\ OccursOnce(input, id)
                 /\ \A k \in 1..(a - 1) :
                       Range(input) \cap NamingTokens(arguments[k]) = {})
                => LET v == input[FirstAt(input, id) + 1]
                   IN /\ HasKey(parsedLocal.arguments, arguments[a].name)
                      /\ Get(parsedLocal.arguments, arguments[a].name).value =
                            CastToType(v, arguments[a].type).value
                      /\ \A f \in 1..Len(flags) :
                            (v \in FlagTokens(flags[f]) /\ OccursOnce(input, v))
                            => /\ HasKey(parsedLocal.flags, flags[f].name)
                               /\ ~Get(parsedLocal.flags, flags[f].name).value
                      /\ \A b \in (a + 1)..Len(arguments) :
                            (/\ Range(input) \cap NamingTokens(arguments[b]) = {v}
                             /\ OccursOnce(input, v))
                            => ~HasKey(parsedLocal.arguments, arguments[b].name)

C36_Witness ==
    /\ cmd = "issues"
    /\ pc = "parsed"
    /\ input = <<"jira", "-t", "-w">>
    /\ parsedLocal.arguments = << [name |-> "write-to", value |-> [str |-> "-w"]] >>
    /\ parsedLocal.flags = << [name |-> "write", value |-> FALSE] >>

\* C37: when the input holds the long and the short identifier of one
\* argument, each once and each followed by a value of its own, and no
\* identifier of another argument, the argument phase removes both pairs
\* from the stream and records the cast of the value that follows the
\* short identifier.
C37_ShortFormWins ==
    pc = "parseFlags" =>
        \A a \in 1..Len(arguments) :
            LET long == "--" \o arguments[a].name
                short == "-" \o arguments[a].shortHand[1]
            IN (/\ arguments[a].shortHand # Undefined
                /\ long \in Range(input) /\ OccursOnce(input, long)
                /\ short \in Range(input) /\ OccursOnce(input, short)
                /\ FirstAt(input, long) + 1 # FirstAt(input, short)
                /\ FirstAt(input, short) + 1 # FirstAt(input, long)
                /\ \A k \in 1..Len(arguments) \ {a} :
                      Range(input) \cap NamingTokens(arguments[k]) = {})
               => LET l == FirstAt(input, long)
                      s == FirstAt(input, short)
                      first == IF l < s THEN l ELSE s
                      last == IF l < s THEN s ELSE l
                  IN /\ Get(parsedLocal.arguments, arguments[a].name).value =
                           CastToType(input[s + 1], arguments[a].type).value
                     /\ args = WithoutPair(WithoutPair(input, last), first)

C37_Witness ==
    /\ cmd = "prepare"
    /\ pc = "parseFlags"
    /\ input = <<"--write-to", "main", "-t", "out.json">>
    /\ parsedLocal.arguments = << [name |-> "write-to", value |-> [str |-> "out.json"]] >>
    /\ args = <<>>

(***************************************************************************)
(* Registration calls that fail.                                           *)
(***************************************************************************)
\* C38: a registration call that throws (the identifier is empty, an
\* identifier is already a key of the arguments or of the flags registry,
\* the parameter is not in the pattern or is registered already) leaves
\* the arguments, flags and parameters registries as they were.
C38_FailedRegistrationKeepsRegistries ==
    [][(regs' = regs + 1 /\ pc' = "exited")
          => UNCHANGED <<arguments, flags, parameters>>]_vars

C38_Witness ==
    /\ pc = "exited"
    /\ message = <<"argument with identifier foo already exists">>
    /\ Keys(arguments) = {"foo"}
    /\ flags = <<>>
    /\ Keys(parameters) = {"a"}

==============================================================================
